---- MODULE Spec2Model ----
(***************************************************************************)
(* forbid-junk-object-types: the single-use named type analysis            *)
(* (analyzer.ts, parser.ts, type-definitions.ts, parser-utils.ts) and the  *)
(* inline object type detectors (inline-detector.ts, inline-types.ts).     *)
(*                                                                         *)
(* The parsed program is the input.  It is built node by node (the parse   *)
(* of ts.createProgram), then the analysis runs over it exactly as the     *)
(* code does: per source file the definition walk and the usage walk, and  *)
(* after the last file the classification of findViolations.               *)
(***************************************************************************)
EXTENDS Integers, Sequences, FiniteSets, TLC

\* Number of syntax-tree nodes of one parsed program (SourceFile roots not counted).
MaxNodes == 3

\* Number of nodes of the type syntax of one source file the inline collectors walk.
MaxTreeNodes == 4

\* An absent name or annotation (JavaScript undefined).  Identifier text is never
\* empty, and the code only tests names for truthiness, so "" stands for it.
Undefined == ""

\* The source files of the analysed program, in program.getSourceFiles() order.
FileNames == <<"/t/src/a.ts", "/t/src/b.ts">>

-----------------------------------------------------------------------------
(* Type annotations: kind, the referenced name (type references), and the   *)
(* nested type nodes (typeArguments, elementType, union members).           *)

TypeNode(kind, name, sub) == [kind |-> kind, name |-> name, sub |-> sub]

NoType == TypeNode("undefined", Undefined, <<>>)

Ref(n) == TypeNode("TypeReference", n, <<>>)

TypeLiteralNode == TypeNode("TypeLiteral", Undefined, <<>>)

StringKeyword == TypeNode("StringKeyword", Undefined, <<>>)

(* A declaration-level syntax node.  name is the identifier text, or        *)
(* Undefined when the name is no identifier (anonymous function, binding    *)
(* pattern).  heritage: the expressions of the heritage clauses; params:    *)
(* the type annotation of each parameter; type: the return annotation, the  *)
(* variable's annotation or the aliased type; members: the annotation of    *)
(* each property signature.                                                  *)
Node(kind, name, isExported, heritage, params, type, members) ==
    [kind |-> kind, name |-> name, isExported |-> isExported, heritage |-> heritage,
     params |-> params, type |-> type, members |-> members]

InterfaceNodes ==
    {Node("InterfaceDeclaration", "A", FALSE, <<>>, <<>>, NoType, <<>>),
     Node("InterfaceDeclaration", "AProps", FALSE, <<>>, <<>>, NoType, <<>>),
     Node("InterfaceDeclaration", "A", TRUE, <<>>, <<>>, NoType, <<>>),
     Node("InterfaceDeclaration", "A", FALSE, <<"AProps">>, <<>>, NoType, <<>>),
     Node("InterfaceDeclaration", "A", FALSE, <<>>, <<>>, NoType, <<Ref("AProps")>>)}

TypeAliasNodes ==
    {Node("TypeAliasDeclaration", "A", FALSE, <<>>, <<>>, TypeLiteralNode, <<>>),
     Node("TypeAliasDeclaration", "A", FALSE, <<>>, <<>>, StringKeyword, <<>>)}

FunctionNodes ==
    {Node("FunctionDeclaration", "f", FALSE, <<>>, <<Ref("A")>>, NoType, <<>>),
     Node("FunctionDeclaration", "f", FALSE, <<>>, <<Ref("AProps")>>, NoType, <<>>),
     Node("FunctionDeclaration", "g", FALSE, <<>>, <<>>, Ref("A"), <<>>),
     Node("ArrowFunction", Undefined, FALSE, <<>>, <<Ref("A")>>, NoType, <<>>)}

VariableNodes ==
    {Node("VariableDeclaration", "f", FALSE, <<>>, <<>>, NoType, <<>>),
     Node("VariableDeclaration", "g", FALSE, <<>>, <<>>, Ref("A"), <<>>),
     Node("VariableDeclaration", Undefined, FALSE, <<>>, <<>>, Ref("A"), <<>>)}

\* The nodes the parse of the analysed sources yields.
SourceNodes == InterfaceNodes \cup TypeAliasNodes \cup FunctionNodes \cup VariableNodes

FunctionLikeKinds == {"FunctionDeclaration", "MethodDeclaration", "ArrowFunction",
                      "FunctionExpression"}

StatementKinds == {"InterfaceDeclaration", "TypeAliasDeclaration", "FunctionDeclaration",
                   "VariableDeclaration"}

ExpressionKinds == {"ArrowFunction", "FunctionExpression", "ObjectLiteralExpression",
                    "CallExpression"}

-----------------------------------------------------------------------------
VARIABLES
    pc,               \* "parse", "collect" (the loop of analyzeSourceFiles), "done"
    nodes,            \* the parsed program: its nodes in source order, each with
                      \* its file, its parent (0: the SourceFile) and its start
    fileIdx,          \* the source file the loop of analyzeSourceFiles is at
    typeDefinitions,  \* Map<string, TypeDefinition>, in insertion order
    typeUsages,       \* Map<string, TypeUsage[]>
    violations,       \* the result of findViolations
    inlinePc,         \* "parse", "parsed" (the same file parsed again), or the
                      \* inline collector that has run
    tree,             \* the type syntax of one source file, nodes in source order
    inlineObjectViolations,  \* the result of collectInlineObjectViolations
    inlineTypeViolations,    \* the result of collectInlineObjectTypes
    storePc,          \* "input", or the function of suppression.ts that was called
    disk,             \* the file at the suppression path
    existingArg,      \* a SuppressionFile: the suppressions loaded or handed over
    newArg,           \* a SuppressionFile: the argument newSuppressions
    violationsArg,    \* a list of violations handed to suppression.ts
    returned,         \* the call of suppression.ts made: its arguments and value
    cliPc,            \* where the command-line run is: "idle", "main", "runAnalysis",
                      \* "determineFilesToCheck", "analyzeCodebase", "filtered", "exited"
    args,             \* ParsedArgs
    env,              \* what the run finds: the git repository, the src directory
    loaded,           \* the value of loadSuppressions
    filesToCheck,     \* the value of determineFilesToCheck
    result,           \* the value of analyzeCodebase
    filtered,         \* the value of filterSuppressedViolations
    exit,             \* how the run ended: its status, and the error main().catch got
    suppressAllRun,   \* the --suppress-all run before this one: what it loaded and
                      \* what it suppressed
    previousRun       \* the violations of the analysis before this one

analysisVars == <<pc, nodes, fileIdx, typeDefinitions, typeUsages, violations>>

inlineVars == <<inlinePc, tree, inlineObjectViolations, inlineTypeViolations>>

cliVars == <<cliPc, args, env, loaded, filesToCheck, result, filtered, exit, suppressAllRun>>

storeVars == <<storePc, disk, existingArg, newArg, violationsArg, returned>>

vars == <<analysisVars, inlineVars, storeVars, cliVars, previousRun>>

-----------------------------------------------------------------------------
(* The syntax tree. *)

\* The ancestors of node i, nearest first.
RECURSIVE Ancestors(_, _)
Ancestors(ns, i) ==
    IF ns[i].parent = 0 THEN <<>> ELSE <<ns[i].parent>> \o Ancestors(ns, ns[i].parent)

\* The kind of the parent of a node (p = 0: the source file).
KindOf(ns, p) == IF p = 0 THEN "SourceFile" ELSE ns[p].kind

\* Where the grammar allows a node of this kind, with the statement and block
\* wrappers between a declaration and its container left out.
MayContain(ns, p, kind) ==
    LET pk == KindOf(ns, p) IN
    CASE kind \in {"PropertyAssignment", "MethodDeclaration"} ->
            pk = "ObjectLiteralExpression"
      [] kind \in StatementKinds \ ExpressionKinds ->
            pk = "SourceFile" \/ pk \in FunctionLikeKinds
      [] OTHER ->
            \/ pk = "SourceFile" \/ pk \in FunctionLikeKinds \/ pk = "CallExpression"
            \* a variable or a property has one initializer
            \/ /\ pk \in {"VariableDeclaration", "PropertyAssignment"}
               /\ \A j \in 1..Len(ns) : ns[j].parent # p

\* ts.forEachChild: the children of node p of file f (p = 0: of its SourceFile),
\* in source order.
RECURSIVE ChildrenFrom(_, _, _, _)
ChildrenFrom(ns, f, p, j) ==
    IF j > Len(ns) THEN <<>>
    ELSE (IF ns[j].file = f /\ ns[j].parent = p THEN <<j>> ELSE <<>>)
         \o ChildrenFrom(ns, f, p, j + 1)

Children(ns, f, p) == ChildrenFrom(ns, f, p, 1)

-----------------------------------------------------------------------------
(* parser-utils.ts *)

GetLineAndColumn(node) ==
    [line |-> node.start.line + 1, column |-> node.start.character + 1]

ObjectLikeWrappers == {"Pick", "Omit", "Record", "Partial", "Required"}

IsObjectLikeType(typeNode) ==
    \/ typeNode.kind = "TypeLiteral"
    \/ /\ typeNode.kind = "TypeReference"
       /\ typeNode.name # Undefined
       /\ typeNode.name \in ObjectLikeWrappers

IsExportedNode(node) == node.isExported

\* Variant: the heritage clauses are never seen.
ExtendsOtherTypeNever(node) == FALSE

ExtendsOtherType(node) ==
    node.kind = "InterfaceDeclaration" /\ Len(node.heritage) > 0

GetArrowFunctionName(ns, i) ==
    LET p == ns[i].parent IN
    IF p = 0 THEN Undefined
    ELSE IF ns[p].kind = "VariableDeclaration" /\ ns[p].name # Undefined THEN ns[p].name
    ELSE IF ns[p].kind = "PropertyAssignment" /\ ns[p].name # Undefined THEN ns[p].name
    ELSE Undefined

GetFunctionName(ns, i) ==
    LET node == ns[i] IN
    IF node.kind = "FunctionDeclaration" /\ node.name # Undefined THEN node.name
    ELSE IF node.kind = "MethodDeclaration" /\ node.name # Undefined THEN node.name
    ELSE IF node.kind \in {"ArrowFunction", "FunctionExpression"}
         THEN GetArrowFunctionName(ns, i)
    ELSE Undefined

-----------------------------------------------------------------------------
(* String.prototype.endsWith *)

EndsWith(s, suffix) ==
    Len(s) >= Len(suffix) /\ SubSeq(s, Len(s) - Len(suffix) + 1, Len(s)) = suffix

-----------------------------------------------------------------------------
(* JavaScript Map, in insertion order: a sequence of [key, value] entries. *)

MapHas(m, k) == \E i \in 1..Len(m) : m[i].key = k

\* Variant: a key that is present is not replaced, the entry is added.
MapSetAppend(m, k, v) == Append(m, [key |-> k, value |-> v])

MapSet(m, k, v) ==
    IF MapHas(m, k)
    THEN [i \in 1..Len(m) |-> IF m[i].key = k THEN [key |-> k, value |-> v] ELSE m[i]]
    ELSE Append(m, [key |-> k, value |-> v])

MapValues(m) == [i \in 1..Len(m) |-> m[i].value]

-----------------------------------------------------------------------------
(* type-definitions.ts *)

TypeDefinition(node, kind) ==
    LET lc == GetLineAndColumn(node) IN
    [name |-> node.name, kind |-> kind, filePath |-> FileNames[node.file],
     line |-> lc.line, column |-> lc.column, isObjectType |-> TRUE,
     node |-> node, isExported |-> IsExportedNode(node)]

DefinitionKey(node) == FileNames[node.file] \o ":" \o node.name

AddInterfaceDefinition(node, definitions) ==
    MapSet(definitions, DefinitionKey(node), TypeDefinition(node, "interface"))

AddTypeAliasDefinition(node, definitions) ==
    IF IsObjectLikeType(node.type)
    THEN MapSet(definitions, DefinitionKey(node), TypeDefinition(node, "type"))
    ELSE definitions

RECURSIVE DefVisit(_, _, _, _)
RECURSIVE DefVisitEach(_, _, _, _)
\* visit(node) of collectTypeDefinitions; i = 0 is the SourceFile.
DefVisit(ns, f, i, definitions) ==
    LET d1 == IF i # 0 /\ ns[i].kind = "InterfaceDeclaration"
              THEN AddInterfaceDefinition(ns[i], definitions) ELSE definitions
        d2 == IF i # 0 /\ ns[i].kind = "TypeAliasDeclaration"
              THEN AddTypeAliasDefinition(ns[i], d1) ELSE d1
    IN  DefVisitEach(ns, f, Children(ns, f, i), d2)

DefVisitEach(ns, f, cs, definitions) ==
    IF cs = <<>> THEN definitions
    ELSE DefVisitEach(ns, f, Tail(cs), DefVisit(ns, f, Head(cs), definitions))

CollectTypeDefinitions(ns, f, definitions) == DefVisit(ns, f, 0, definitions)

-----------------------------------------------------------------------------
(* parser.ts: the usage collector *)

ExtractTypeNameFromReference(typeNode) == typeNode.name

RECURSIVE ExtractAllTypeNames(_)
RECURSIVE ExtractEach(_)
ExtractFromTypeReference(typeNode) ==
    LET name == ExtractTypeNameFromReference(typeNode) IN
    (IF name # Undefined THEN <<name>> ELSE <<>>) \o ExtractEach(typeNode.sub)

\* Variant: only the name of a direct type reference is taken.
ExtractDirectReferenceOnly(typeNode) ==
    IF typeNode.kind = "TypeReference" /\ ExtractTypeNameFromReference(typeNode) # Undefined
    THEN <<ExtractTypeNameFromReference(typeNode)>>
    ELSE <<>>

ExtractAllTypeNames(typeNode) ==
    IF typeNode.kind = "undefined" THEN <<>>
    ELSE IF typeNode.kind = "TypeReference" THEN ExtractFromTypeReference(typeNode)
    ELSE IF typeNode.kind = "ArrayType" THEN ExtractAllTypeNames(typeNode.sub[1])
    ELSE IF typeNode.kind \in {"UnionType", "IntersectionType"} THEN ExtractEach(typeNode.sub)
    ELSE <<>>

\* flatMap(extractAllTypeNames)
ExtractEach(typeNodes) ==
    IF typeNodes = <<>> THEN <<>>
    ELSE ExtractAllTypeNames(Head(typeNodes)) \o ExtractEach(Tail(typeNodes))

TypeUsage(typeName, usageContext, functionName, node) ==
    [typeName |-> typeName, usageContext |-> usageContext, functionName |-> functionName,
     filePath |-> FileNames[node.file], line |-> GetLineAndColumn(node).line]

\* Variant: a usage is recorded only for a name that has a definition already.
AddUsageOfKnownType(usages, typeName, usage) ==
    IF \A k \in 1..Len(typeDefinitions) : typeDefinitions[k].value.name # typeName
    THEN usages
    ELSE IF typeName \notin DOMAIN usages
         THEN (typeName :> <<usage>>) @@ usages
         ELSE [usages EXCEPT ![typeName] = Append(@, usage)]

\* addUsage of collectTypeUsages
AddUsage(usages, typeName, usage) ==
    IF typeName \notin DOMAIN usages
    THEN (typeName :> <<usage>>) @@ usages
    ELSE [usages EXCEPT ![typeName] = Append(@, usage)]

\* for (const typeName of typeNames) context.addUsage(typeName, {...})
RECURSIVE AddUsages(_, _, _, _, _)
AddUsages(usages, typeNames, usageContext, functionName, node) ==
    IF typeNames = <<>> THEN usages
    ELSE AddUsages(AddUsage(usages, Head(typeNames),
                            TypeUsage(Head(typeNames), usageContext, functionName, node)),
                   Tail(typeNames), usageContext, functionName, node)

RECURSIVE ProcessParametersFrom(_, _, _, _)
ProcessParametersFrom(node, k, functionName, usages) ==
    IF k > Len(node.params) THEN usages
    ELSE ProcessParametersFrom(node, k + 1, functionName,
             AddUsages(usages, ExtractAllTypeNames(node.params[k]), "function-param",
                       functionName, node))

ProcessFunctionParameters(node, functionName, usages) ==
    ProcessParametersFrom(node, 1, functionName, usages)

ProcessFunctionReturnType(node, functionName, usages) ==
    AddUsages(usages, ExtractAllTypeNames(node.type), "function-return", functionName, node)

\* The usage carries no functionName: the base context has none.
ProcessVariableType(node, usages) ==
    AddUsages(usages, ExtractAllTypeNames(node.type), "variable", Undefined, node)

IsFunctionLike(node) == node.kind \in FunctionLikeKinds

ProcessFunctionNode(ns, i, currentFunctionName, usages) ==
    LET own == GetFunctionName(ns, i)
        functionName == IF own # Undefined THEN own ELSE currentFunctionName
    IN  ProcessFunctionReturnType(ns[i], functionName,
            ProcessFunctionParameters(ns[i], functionName, usages))

\* An expression that is no identifier yields no name.
RECURSIVE ProcessHeritageFrom(_, _, _)
ProcessHeritageFrom(node, k, usages) ==
    IF k > Len(node.heritage) THEN usages
    ELSE ProcessHeritageFrom(node, k + 1,
             IF node.heritage[k] # Undefined
             THEN AddUsage(usages, node.heritage[k],
                           TypeUsage(node.heritage[k], "property", node.name, node))
             ELSE usages)

ProcessInterfaceHeritage(node, usages) == ProcessHeritageFrom(node, 1, usages)

RECURSIVE ProcessMembersFrom(_, _, _)
ProcessMembersFrom(node, k, usages) ==
    IF k > Len(node.members) THEN usages
    ELSE ProcessMembersFrom(node, k + 1,
             AddUsages(usages, ExtractAllTypeNames(node.members[k]), "property",
                       node.name, node))

ProcessInterfaceProperties(node, usages) == ProcessMembersFrom(node, 1, usages)

\* Variant: the heritage clauses are not looked at.
ProcessInterfacePropertiesOnly(node, usages) ==
    ProcessInterfaceProperties(node, usages)

ProcessInterface(node, usages) ==
    ProcessInterfaceProperties(node, ProcessInterfaceHeritage(node, usages))

ProcessNode(ns, i, currentFunctionName, usages) ==
    LET u1 == IF IsFunctionLike(ns[i])
              THEN ProcessFunctionNode(ns, i, currentFunctionName, usages) ELSE usages
        u2 == IF ns[i].kind = "VariableDeclaration"
              THEN ProcessVariableType(ns[i], u1) ELSE u1
    IN  IF ns[i].kind = "InterfaceDeclaration" THEN ProcessInterface(ns[i], u2) ELSE u2

\* visit(node) of collectTypeUsages.  st holds the closure's state: cur is
\* currentFunctionName, usages the map being filled.  i = 0 is the SourceFile.
RECURSIVE UsageVisit(_, _, _, _)
RECURSIVE UsageVisitEach(_, _, _, _)
\* Variant: currentFunctionName is not restored after a variable declaration.
UsageVisitNoRestore(ns, f, i, st) ==
    IF i # 0 /\ ns[i].kind = "VariableDeclaration" /\ ns[i].name # Undefined
    THEN UsageVisitEach(ns, f, Children(ns, f, i), [st EXCEPT !.cur = ns[i].name])
    ELSE UsageVisitEach(ns, f, Children(ns, f, i),
             IF i = 0 THEN st
             ELSE [st EXCEPT !.usages = ProcessNode(ns, i, st.cur, st.usages)])

UsageVisit(ns, f, i, st) ==
    IF i # 0 /\ ns[i].kind = "VariableDeclaration" /\ ns[i].name # Undefined
    THEN LET inner == UsageVisitEach(ns, f, Children(ns, f, i),
                                     [st EXCEPT !.cur = ns[i].name])
         IN  [inner EXCEPT !.cur = st.cur]
    ELSE UsageVisitEach(ns, f, Children(ns, f, i),
             IF i = 0 THEN st
             ELSE [st EXCEPT !.usages = ProcessNode(ns, i, st.cur, st.usages)])

UsageVisitEach(ns, f, cs, st) ==
    IF cs = <<>> THEN st
    ELSE UsageVisitEach(ns, f, Tail(cs), UsageVisit(ns, f, Head(cs), st))

CollectTypeUsages(ns, f, usages) ==
    UsageVisit(ns, f, 0, [cur |-> Undefined, usages |-> usages]).usages

-----------------------------------------------------------------------------
(* analyzer.ts *)

\* Variant: the usages without a function name are not filtered out.
UniqueFunctionsUnfiltered(usages) ==
    {usages[k].functionName : k \in 1..Len(usages)}

\* usages.filter(u => u.functionName).map(u => u.functionName), as a Set
UniqueFunctions(usages) ==
    {usages[k].functionName : k \in {j \in 1..Len(usages) : usages[j].functionName # Undefined}}

\* Variant: one usage, instead of one function.
IsSingleUseTypeOneUsage(definition, usages) == Len(usages) = 1

\* Variant: at least one function, instead of exactly one.
IsSingleUseTypeSomeFunction(definition, usages) ==
    IF Len(usages) = 0 THEN FALSE
    ELSE Cardinality(UniqueFunctions(usages)) >= 1

IsSingleUseType(definition, usages) ==
    IF Len(usages) = 0 THEN FALSE
    ELSE Cardinality(UniqueFunctions(usages)) = 1

\* Variant: the export flag is not looked at.
HasLegitimateReasonNoExport(definition) ==
    IF /\ definition.node.kind \in {"InterfaceDeclaration", "TypeAliasDeclaration"}
       /\ ExtendsOtherType(definition.node) THEN TRUE
    ELSE IF EndsWith(definition.name, "Props") THEN TRUE
    ELSE FALSE

\* Variant: the Props suffix is not looked at.
HasLegitimateReasonNoProps(definition) ==
    IF definition.isExported THEN TRUE
    ELSE IF /\ definition.node.kind \in {"InterfaceDeclaration", "TypeAliasDeclaration"}
            /\ ExtendsOtherType(definition.node) THEN TRUE
    ELSE FALSE

HasLegitimateReason(definition) ==
    IF definition.isExported THEN TRUE
    ELSE IF /\ definition.node.kind \in {"InterfaceDeclaration", "TypeAliasDeclaration"}
            /\ ExtendsOtherType(definition.node) THEN TRUE
    ELSE IF EndsWith(definition.name, "Props") THEN TRUE
    ELSE FALSE

\* typeUsages.get(name) || []
UsagesOf(usages, name) == IF name \in DOMAIN usages THEN usages[name] ELSE <<>>

\* usages.find(u => u.functionName)?.functionName || 'unknown'
FirstFunctionName(usages) ==
    LET named == {k \in 1..Len(usages) : usages[k].functionName # Undefined} IN
    IF named = {} THEN "unknown"
    ELSE usages[CHOOSE k \in named : \A j \in named : k <= j].functionName

Violation(definition, functionName) ==
    [kind |-> "single-use-named", typeName |-> definition.name,
     filePath |-> definition.filePath, line |-> definition.line,
     column |-> definition.column, usedByFunction |-> functionName]

\* Variant: a definition is matched with the usages of its own file only.
RECURSIVE FindViolationsFromSameFile(_, _, _, _)
FindViolationsFromSameFile(definitions, k, usages, out) ==
    IF k > Len(definitions) THEN out
    ELSE LET definition == definitions[k]
             us == SelectSeq(UsagesOf(usages, definition.name),
                             LAMBDA u : u.filePath = definition.filePath)
         IN  FindViolationsFromSameFile(definitions, k + 1, usages,
                 IF IsSingleUseType(definition, us) /\ ~HasLegitimateReason(definition)
                 THEN Append(out, Violation(definition, FirstFunctionName(us)))
                 ELSE out)

RECURSIVE FindViolationsFrom(_, _, _, _)
FindViolationsFrom(definitions, k, usages, out) ==
    IF k > Len(definitions) THEN out
    ELSE LET definition == definitions[k]
             us == UsagesOf(usages, definition.name)
         IN  FindViolationsFrom(definitions, k + 1, usages,
                 IF IsSingleUseType(definition, us) /\ ~HasLegitimateReason(definition)
                 THEN Append(out, Violation(definition, FirstFunctionName(us)))
                 ELSE out)

\* Variant: a type reported by the analysis before this one is not reported again.
FindViolationsNotYetReported(definitions, usages) ==
    SelectSeq(FindViolationsFrom(MapValues(definitions), 1, usages, <<>>),
              LAMBDA v : \A k \in 1..Len(previousRun.violations) :
                             previousRun.violations[k] # v)

FindViolations(definitions, usages) ==
    FindViolationsFrom(MapValues(definitions), 1, usages, <<>>)

-----------------------------------------------------------------------------
(* The run. *)

InitAnalysis ==
    /\ pc = "parse"
    /\ nodes = <<>>
    /\ fileIdx = 1
    /\ typeDefinitions = <<>>
    /\ typeUsages = <<>>
    /\ violations = <<>>

InitInline ==
    /\ inlinePc = "parse"
    /\ tree = <<>>
    /\ inlineObjectViolations = <<>>
    /\ inlineTypeViolations = <<>>

\* No suppression file, no suppressions, nothing called.
InitStore ==
    /\ storePc = "input"
    /\ disk = [kind |-> "absent", content |-> ""]
    /\ existingArg = <<>>
    /\ newArg = <<>>
    /\ violationsArg = <<>>
    /\ returned = <<>>

\* The value of analyzeCodebase; analysed is FALSE before it has returned.
AnalysisResult(analysed, violationList, inlineViolations) ==
    [analysed |-> analysed, violations |-> violationList, inlineViolations |-> inlineViolations]

\* string[] | undefined
FilesToCheck(defined, files) == [defined |-> defined, files |-> files]

FilteredViolationsResult(unsuppressedViolations, unsuppressedInlineViolations) ==
    [unsuppressedViolations |-> unsuppressedViolations,
     unsuppressedInlineViolations |-> unsuppressedInlineViolations]

\* No command-line run.
InitCli ==
    /\ cliPc = "idle"
    /\ args = [suppressAll |-> FALSE, changedOnly |-> FALSE, files |-> <<>>, help |-> FALSE]
    /\ env = [git |-> "changed", srcDir |-> TRUE]
    /\ loaded = <<>>
    /\ filesToCheck = FilesToCheck(FALSE, <<>>)
    /\ result = AnalysisResult(FALSE, <<>>, <<>>)
    /\ filtered = FilteredViolationsResult(<<>>, <<>>)
    /\ exit = [status |-> 0, error |-> ""]
    /\ suppressAllRun = [ran |-> FALSE, existing |-> <<>>,
                         filtered |-> FilteredViolationsResult(<<>>, <<>>)]

\* No analysis before this one.
InitRerun ==
    previousRun = [ran |-> FALSE, violations |-> <<>>, collector |-> "", inline |-> <<>>]

Init == InitAnalysis /\ InitInline /\ InitStore /\ InitCli /\ InitRerun

\* The places the next node in source order can take: a new top-level node of the
\* last file or of a later one, or a child of the last node or of one of its ancestors.
\* The first node is of the first file (the files are alike but for their names).
Places ==
    LET n == Len(nodes)
        last == IF n = 0 THEN 1 ELSE nodes[n].file
    IN  {[file |-> f, parent |-> 0] : f \in last..(IF n = 0 THEN 1 ELSE Len(FileNames))}
        \cup (IF n = 0 THEN {}
              ELSE {[file |-> last, parent |-> p] :
                        p \in {n} \cup {Ancestors(nodes, n)[k] :
                                        k \in 1..Len(Ancestors(nodes, n))}})

Parsed(node, place) ==
    [kind |-> node.kind, name |-> node.name, isExported |-> node.isExported,
     heritage |-> node.heritage, params |-> node.params, type |-> node.type,
     members |-> node.members, file |-> place.file, parent |-> place.parent,
     start |-> [line |-> Len(nodes),
                character |-> IF place.parent = 0 THEN 0
                              ELSE 2 * (1 + Len(Ancestors(nodes, place.parent)))]]

\* ts.createProgram: the parse yields one more node of the program.
ParseNode ==
    /\ pc = "parse"
    /\ Len(nodes) < MaxNodes
    /\ \E node \in SourceNodes, place \in Places :
          /\ MayContain(nodes, place.parent, node.kind)
          /\ nodes' = Append(nodes, Parsed(node, place))
    /\ UNCHANGED <<pc, fileIdx, typeDefinitions, typeUsages, violations>>
    /\ UNCHANGED <<inlineVars, storeVars, cliVars, previousRun>>

\* One iteration of the loop of analyzeSourceFiles.
\* Variant: the definitions are classified after each file.
AnalyzeSourceFileClassifying ==
    /\ pc \in {"parse", "collect"}
    /\ fileIdx <= Len(FileNames)
    /\ pc' = "collect"
    /\ typeDefinitions' = CollectTypeDefinitions(nodes, fileIdx, typeDefinitions)
    /\ typeUsages' = CollectTypeUsages(nodes, fileIdx, typeUsages)
    /\ fileIdx' = fileIdx + 1
    /\ violations' = FindViolations(typeDefinitions', typeUsages')
    /\ UNCHANGED nodes
    /\ UNCHANGED <<inlineVars, storeVars, cliVars, previousRun>>

AnalyzeSourceFile ==
    /\ pc \in {"parse", "collect"}
    /\ fileIdx <= Len(FileNames)
    /\ pc' = "collect"
    /\ typeDefinitions' = CollectTypeDefinitions(nodes, fileIdx, typeDefinitions)
    /\ typeUsages' = CollectTypeUsages(nodes, fileIdx, typeUsages)
    /\ fileIdx' = fileIdx + 1
    /\ UNCHANGED <<nodes, violations>>
    /\ UNCHANGED <<inlineVars, storeVars, cliVars, previousRun>>

\* analyzeCodebase, after the loop: findViolations and the result.
AnalyzeCodebaseResult ==
    /\ pc = "collect"
    /\ fileIdx > Len(FileNames)
    /\ violations' = FindViolations(typeDefinitions, typeUsages)
    /\ pc' = "done"
    /\ UNCHANGED <<nodes, fileIdx, typeDefinitions, typeUsages>>
    /\ UNCHANGED <<inlineVars, storeVars, cliVars, previousRun>>

Next == ParseNode \/ AnalyzeSourceFile \/ AnalyzeCodebaseResult

Spec == Init /\ [][Next]_vars

-----------------------------------------------------------------------------
(* The type syntax the inline collectors walk.  A node has its kind, the   *)
(* kind of its name node (binding: Identifier, a binding pattern, or        *)
(* Undefined when it has no name), the identifier text (name, Undefined     *)
(* when the name is no identifier), the property of its parent that holds   *)
(* it (role), for a type literal the number of its members that hold no     *)
(* further modelled node (members), its parent (0: the SourceFile) and its  *)
(* start.                                                                   *)

TreeNode(kind, name, binding, members) ==
    [kind |-> kind, name |-> name, binding |-> binding, members |-> members]

Named(kind, name) == TreeNode(kind, name, "Identifier", 0)

Unnamed(kind) == TreeNode(kind, Undefined, Undefined, 0)

TypeKinds == {"TypeLiteral", "TypeReference", "ArrayType", "UnionType"}

TypeSyntaxNodes ==
    {Named("FunctionDeclaration", "f"),
     Named("MethodSignature", "m"),
     Named("Parameter", "opts"),
     TreeNode("Parameter", Undefined, "ObjectBindingPattern", 0),
     TreeNode("Parameter", Undefined, "ArrayBindingPattern", 0),
     Named("VariableDeclaration", "v"),
     Named("PropertySignature", "p"),
     Named("TypeAliasDeclaration", "A"),
     Unnamed("CallExpression"),
     Unnamed("AsExpression"),
     Named("TypeParameter", "T"),
     Named("TypeReference", "Array"),
     Unnamed("ArrayType"),
     Unnamed("UnionType"),
     TreeNode("TypeLiteral", Undefined, Undefined, 0),
     TreeNode("TypeLiteral", Undefined, Undefined, 1)}

\* The properties of a parent of kind pk that can hold a child of kind ck.
Roles(pk, ck) ==
    CASE pk = "SourceFile" ->
            IF ck \in {"FunctionDeclaration", "VariableDeclaration",
                       "TypeAliasDeclaration", "CallExpression", "AsExpression"}
            THEN {"statements"} ELSE {}
      [] pk \in {"FunctionDeclaration", "MethodSignature", "TypeAliasDeclaration"} ->
            IF ck = "TypeParameter" /\ pk # "MethodSignature" THEN {"typeParameters"}
            ELSE IF ck = "Parameter" /\ pk # "TypeAliasDeclaration" THEN {"parameters"}
            ELSE IF ck \in TypeKinds THEN {"type"} ELSE {}
      [] pk \in {"Parameter", "VariableDeclaration", "PropertySignature", "AsExpression"} ->
            IF ck \in TypeKinds THEN {"type"} ELSE {}
      [] pk \in {"CallExpression", "TypeReference"} ->
            IF ck \in TypeKinds THEN {"typeArguments"} ELSE {}
      [] pk = "ArrayType" -> IF ck \in TypeKinds THEN {"elementType"} ELSE {}
      [] pk = "UnionType" -> IF ck \in TypeKinds THEN {"types"} ELSE {}
      [] pk = "TypeParameter" -> IF ck \in TypeKinds THEN {"constraint", "default"} ELSE {}
      [] pk = "TypeLiteral" ->
            IF ck \in {"PropertySignature", "MethodSignature"} THEN {"members"} ELSE {}
      [] OTHER -> {}

\* The properties that hold one node, and the source order of the properties.
SingleRoles == {"type", "elementType", "constraint", "default"}

RoleRank(role) ==
    CASE role \in {"parameters", "default"} -> 2
      [] role = "type" -> 3
      [] OTHER -> 1

\* The next node in source order can be held by property role of node p.
MayHold(t, p, role) ==
    \A j \in 1..Len(t) :
        t[j].parent = p =>
            /\ RoleRank(t[j].role) <= RoleRank(role)
            /\ role \in SingleRoles => t[j].role # role

\* node.members.length of a type literal.
MemberCount(t, i) == t[i].members + Cardinality({j \in 1..Len(t) : t[j].parent = i})

-----------------------------------------------------------------------------
(* inline-detector.ts *)

\* The kinds ts.isFunctionLike accepts.
TsFunctionLikeKinds ==
    {"MethodSignature", "CallSignature", "ConstructSignature", "IndexSignature",
     "FunctionType", "ConstructorType", "FunctionDeclaration", "MethodDeclaration",
     "Constructor", "GetAccessor", "SetAccessor", "FunctionExpression", "ArrowFunction"}

NodeContext(description, functionName) ==
    [description |-> description, functionName |-> functionName]

\* null
NoContext == NodeContext(Undefined, Undefined)

IsEmptyObjectType(t, i) == MemberCount(t, i) = 0

GetParameterContext(t, parent) ==
    IF t[parent].kind # "Parameter" THEN NoContext
    ELSE LET func == t[parent].parent IN
         NodeContext("function parameter",
                     IF func # 0 /\ t[func].kind \in TsFunctionLikeKinds
                     THEN GetFunctionName(t, func) ELSE Undefined)

GetFunctionReturnContext(t, parent) ==
    IF t[parent].kind \notin TsFunctionLikeKinds THEN NoContext
    ELSE NodeContext("function return type", GetFunctionName(t, parent))

GetDeclarationContext(t, parent) ==
    IF t[parent].kind = "VariableDeclaration"
    THEN NodeContext("variable declaration", Undefined)
    ELSE IF t[parent].kind = "PropertyDeclaration"
    THEN NodeContext("property declaration", Undefined)
    ELSE IF t[parent].kind \in {"TypeAliasDeclaration", "InterfaceDeclaration"}
    THEN NodeContext("nested in type definition", Undefined)
    ELSE IF t[parent].kind \in {"AsExpression", "TypeAssertionExpression"}
    THEN NodeContext("type assertion", Undefined)
    ELSE NoContext

\* parent = 0 is the SourceFile: it matches no context and has no parent.
RECURSIVE GetContextFromParentNode(_, _)
GetContextFromParentNode(t, parent) ==
    IF parent = 0 THEN NodeContext("unknown context", Undefined)
    ELSE IF GetParameterContext(t, parent) # NoContext THEN GetParameterContext(t, parent)
    ELSE IF GetFunctionReturnContext(t, parent) # NoContext
    THEN GetFunctionReturnContext(t, parent)
    ELSE IF GetDeclarationContext(t, parent) # NoContext
    THEN GetDeclarationContext(t, parent)
    ELSE GetContextFromParentNode(t, t[parent].parent)

InlineObjectViolation(t, i) ==
    [kind |-> "inline-object",
     context |-> GetContextFromParentNode(t, t[i].parent).description,
     filePath |-> FileNames[t[i].file],
     line |-> GetLineAndColumn(t[i]).line,
     column |-> GetLineAndColumn(t[i]).column]

\* visitNode of collectInlineObjectViolations, over the children cs in turn.
RECURSIVE VisitNode(_, _, _)
RECURSIVE VisitNodeEach(_, _, _)
VisitNode(t, i, found) ==
    VisitNodeEach(t, Children(t, t[i].file, i),
                  IF t[i].kind = "TypeLiteral" /\ ~IsEmptyObjectType(t, i)
                  THEN Append(found, InlineObjectViolation(t, i))
                  ELSE found)

VisitNodeEach(t, cs, found) ==
    IF cs = <<>> THEN found
    ELSE VisitNodeEach(t, Tail(cs), VisitNode(t, Head(cs), found))

CollectInlineObjectViolations(t, f) == VisitNodeEach(t, Children(t, f, 0), <<>>)

-----------------------------------------------------------------------------
(* inline-types.ts *)

RECURSIVE IsGenericConstraintFrom(_, _)
IsGenericConstraintFrom(t, current) ==
    LET parent == t[current].parent IN
    IF parent = 0 THEN FALSE
    ELSE IF t[parent].kind = "TypeParameter" /\ t[current].role = "constraint" THEN TRUE
    ELSE IsGenericConstraintFrom(t, parent)

IsGenericConstraint(t, i) == IsGenericConstraintFrom(t, i)

\* getParameterContext of inline-types.ts.
GetParameterContextLabel(parent) ==
    IF parent.binding = "ObjectBindingPattern" THEN "destructured parameter"
    ELSE "parameter '"
         \o (IF parent.binding = "Identifier" THEN parent.name ELSE "unknown")
         \o "'"

\* null is Undefined.
GetPropertyContext(parent) ==
    IF parent.binding = "Identifier" THEN "property '" \o parent.name \o "'"
    ELSE Undefined

GetInlineTypeContext(t, i) ==
    LET p == t[i].parent IN
    IF p = 0 THEN Undefined
    ELSE LET parent == t[p] IN
         IF parent.kind = "Parameter" THEN GetParameterContextLabel(parent)
         ELSE IF parent.kind \in FunctionLikeKinds THEN "return type"
         ELSE IF parent.kind = "VariableDeclaration" /\ parent.binding = "Identifier"
         THEN "variable '" \o parent.name \o "'"
         ELSE IF parent.kind = "AsExpression" THEN "type assertion"
         ELSE IF parent.kind = "TypeReference" /\ t[i].role = "typeArguments"
         THEN "generic argument"
         ELSE IF parent.kind = "PropertySignature" THEN GetPropertyContext(parent)
         ELSE IF parent.kind = "PropertyDeclaration" THEN GetPropertyContext(parent)
         ELSE Undefined

InlineTypeViolation(t, i) ==
    [filePath |-> FileNames[t[i].file],
     line |-> GetLineAndColumn(t[i]).line,
     column |-> GetLineAndColumn(t[i]).column,
     context |-> GetInlineTypeContext(t, i)]

\* visit of collectInlineObjectTypes, over the children cs in turn.
RECURSIVE InlineVisit(_, _, _)
RECURSIVE InlineVisitEach(_, _, _)
InlineVisit(t, i, found) ==
    IF t[i].kind = "TypeLiteral" /\ IsGenericConstraint(t, i)
    THEN InlineVisitEach(t, Children(t, t[i].file, i), found)
    ELSE InlineVisitEach(t, Children(t, t[i].file, i),
                         IF t[i].kind = "TypeLiteral" /\ GetInlineTypeContext(t, i) # Undefined
                         THEN Append(found, InlineTypeViolation(t, i))
                         ELSE found)

InlineVisitEach(t, cs, found) ==
    IF cs = <<>> THEN found
    ELSE InlineVisitEach(t, Tail(cs), InlineVisit(t, Head(cs), found))

CollectInlineObjectTypes(t, f) == InlineVisitEach(t, Children(t, f, 0), <<>>)

-----------------------------------------------------------------------------
(* The run of the inline collectors over one source file. *)

\* The parents the next node in source order can have: the SourceFile, the last
\* node or one of its ancestors.
TreePlaces ==
    LET n == Len(tree) IN
    {0} \cup (IF n = 0 THEN {}
              ELSE {n} \cup {Ancestors(tree, n)[k] : k \in 1..Len(Ancestors(tree, n))})

TreeParsed(node, parent, role) ==
    [kind |-> node.kind, name |-> node.name, binding |-> node.binding,
     members |-> node.members, role |-> role, file |-> 1, parent |-> parent,
     start |-> [line |-> Len(tree),
                character |-> IF parent = 0 THEN 0
                              ELSE 2 * (1 + Len(Ancestors(tree, parent)))]]

\* ts.createSourceFile: the parse yields one more node of the file.
ParseTypeSyntax ==
    /\ inlinePc = "parse"
    /\ Len(tree) < MaxTreeNodes
    /\ \E node \in TypeSyntaxNodes, parent \in TreePlaces :
          \E role \in Roles(KindOf(tree, parent), node.kind) :
              /\ MayHold(tree, parent, role)
              /\ tree' = Append(tree, TreeParsed(node, parent, role))
    /\ UNCHANGED <<inlinePc, inlineObjectViolations, inlineTypeViolations>>
    /\ UNCHANGED <<analysisVars, storeVars, cliVars, previousRun>>

\* A call of collectInlineObjectViolations(sourceFile).
DetectInlineObjectViolations ==
    /\ inlinePc \in {"parse", "parsed"}
    /\ inlineObjectViolations' = CollectInlineObjectViolations(tree, 1)
    /\ inlinePc' = "collectInlineObjectViolations"
    /\ UNCHANGED <<tree, inlineTypeViolations>>
    /\ UNCHANGED <<analysisVars, storeVars, cliVars, previousRun>>

\* A call of collectInlineObjectTypes(sourceFile).
DetectInlineObjectTypes ==
    /\ inlinePc \in {"parse", "parsed"}
    /\ inlineTypeViolations' = CollectInlineObjectTypes(tree, 1)
    /\ inlinePc' = "collectInlineObjectTypes"
    /\ UNCHANGED <<tree, inlineObjectViolations>>
    /\ UNCHANGED <<analysisVars, storeVars, cliVars, previousRun>>

NextInline ==
    ParseTypeSyntax \/ DetectInlineObjectViolations \/ DetectInlineObjectTypes

SpecInline == Init /\ [][NextInline]_vars

-----------------------------------------------------------------------------
(* Properties of the single-use analysis. *)

Done == pc = "done"

\* The recorded definitions.
Recorded == {typeDefinitions[i].value : i \in 1..Len(typeDefinitions)}

\* The recorded usages of a type name.
RecordedUsages(name) ==
    IF name \in DOMAIN typeUsages THEN typeUsages[name] ELSE <<>>

\* The function names the recorded usages of a type name carry.
UsingFunctions(name) ==
    LET us == RecordedUsages(name) IN
    {us[k].functionName : k \in {j \in 1..Len(us) : us[j].functionName # Undefined}}

\* The single-use-named violations at a name and place.
ReportedAt(name, filePath, line, column) ==
    {k \in 1..Len(violations) :
        /\ violations[k].kind = "single-use-named"
        /\ violations[k].typeName = name
        /\ violations[k].filePath = filePath
        /\ violations[k].line = line
        /\ violations[k].column = column}

ReportedDefinition(d) == ReportedAt(d.name, d.filePath, d.line, d.column)

\* The violations at a type declaration of the program.
ReportedDeclaration(i) ==
    ReportedAt(nodes[i].name, FileNames[nodes[i].file],
               nodes[i].start.line + 1, nodes[i].start.character + 1)

TypeDeclarations ==
    {i \in 1..Len(nodes) : nodes[i].kind \in {"InterfaceDeclaration", "TypeAliasDeclaration"}}

NotExempt(d) ==
    ~d.isExported /\ d.node.heritage = <<>> /\ ~EndsWith(d.name, "Props")

\* C1: a recorded definition that is not exported, has no heritage clause, is not
\* named ...Props and whose usages carry exactly one function name has exactly one
\* single-use-named violation, at the definition's file, line and column, naming
\* that function (not 'unknown').
SingleUseReportedOnce ==
    Done =>
        \A d \in Recorded :
            (NotExempt(d) /\ Cardinality(UsingFunctions(d.name)) = 1) =>
                /\ Cardinality(ReportedDefinition(d)) = 1
                /\ \A k \in ReportedDefinition(d) :
                      /\ violations[k].usedByFunction \in UsingFunctions(d.name)
                      /\ violations[k].usedByFunction # "unknown"

\* A non-exempt definition with several usages, all by one function, is reported.
SingleUseReportedOnceWitness ==
    /\ Done
    /\ \E d \in Recorded :
          /\ NotExempt(d)
          /\ Cardinality(UsingFunctions(d.name)) = 1
          /\ Len(RecordedUsages(d.name)) >= 2
          /\ Cardinality(ReportedDefinition(d)) = 1

\* C2: a type name whose usages carry two or more distinct function names has no
\* single-use-named violation, however many usages it has.
MultiUseNotReported ==
    Done =>
        \A k \in 1..Len(violations) :
            Cardinality(UsingFunctions(violations[k].typeName)) < 2

MultiUseNotReportedWitness ==
    /\ Done
    /\ \E d \in Recorded :
          /\ NotExempt(d)
          /\ Cardinality(UsingFunctions(d.name)) >= 2
          /\ ReportedDefinition(d) = {}

ExtendingInterfaceNotReported ==
    Done =>
        /\ \A i \in TypeDeclarations :
              (nodes[i].kind = "InterfaceDeclaration" /\ Len(nodes[i].heritage) >= 1)
                  => ReportedDeclaration(i) = {}
        /\ \A d \in Recorded :
              (/\ d.kind = "type"
               /\ ~d.isExported
               /\ ~EndsWith(d.name, "Props")
               /\ Cardinality(UsingFunctions(d.name)) = 1) => ReportedDefinition(d) # {}

ExtendingInterfaceNotReportedWitness ==
    /\ Done
    /\ \E d \in Recorded :
          /\ d.kind = "interface"
          /\ Len(d.node.heritage) >= 1
          /\ ~d.isExported
          /\ Cardinality(UsingFunctions(d.name)) = 1
          /\ ReportedDefinition(d) = {}
    /\ \E d \in Recorded : d.kind = "type" /\ ReportedDefinition(d) # {}

\* C5: a type whose name ends with Props has no single-use-named violation, also
\* when exactly one function uses it.
PropsNotReported ==
    Done =>
        /\ \A k \in 1..Len(violations) : ~EndsWith(violations[k].typeName, "Props")
        /\ \A i \in TypeDeclarations :
              EndsWith(nodes[i].name, "Props") => ReportedDeclaration(i) = {}

PropsNotReportedWitness ==
    /\ Done
    /\ \E d \in Recorded :
          /\ EndsWith(d.name, "Props")
          /\ ~d.isExported
          /\ d.node.heritage = <<>>
          /\ Cardinality(UsingFunctions(d.name)) = 1
          /\ ReportedDefinition(d) = {}

\* C6: a definition with no usages, or whose usages all lack a function name, is
\* not reported as single-use.
UnattributedNotReported ==
    Done =>
        \A d \in Recorded :
            (\A k \in 1..Len(RecordedUsages(d.name)) :
                 RecordedUsages(d.name)[k].functionName = Undefined)
                => ReportedDefinition(d) = {}

\* A non-exempt definition used only without a function name.
UnattributedNotReportedWitness ==
    /\ Done
    /\ \E d \in Recorded :
          /\ NotExempt(d)
          /\ Len(RecordedUsages(d.name)) >= 1
          /\ UsingFunctions(d.name) = {}
          /\ ReportedDefinition(d) = {}

\* C7: every type reported as single-use has all of its recorded usages attributed
\* to one and the same function (a type referenced by one function's signature and
\* also anywhere else is not reported).
ReportedUsedByOneFunctionOnly ==
    Done =>
        \A k \in 1..Len(violations) :
            \A j \in 1..Len(RecordedUsages(violations[k].typeName)) :
                RecordedUsages(violations[k].typeName)[j].functionName
                    = violations[k].usedByFunction

-----------------------------------------------------------------------------
(* Properties of the inline collectors. *)

InlineDone == inlinePc # "parse"

TypeLiterals == {i \in 1..Len(tree) : tree[i].kind = "TypeLiteral"}

\* The result of the collector that ran.
Collected ==
    IF inlinePc = "collectInlineObjectViolations"
    THEN inlineObjectViolations ELSE inlineTypeViolations

\* Its violations at the place of node i.
CollectedAt(i) ==
    LET found == Collected
    IN  {k \in 1..Len(found) :
            /\ found[k].filePath = FileNames[tree[i].file]
            /\ found[k].line = tree[i].start.line + 1
            /\ found[k].column = tree[i].start.character + 1}

\* The kinds that give a literal below them a context label.
KnownContextKinds ==
    TsFunctionLikeKinds \cup
    {"Parameter", "VariableDeclaration", "PropertyDeclaration", "TypeAliasDeclaration",
     "InterfaceDeclaration", "AsExpression", "TypeAssertionExpression"}

NoKnownContext(i) ==
    \A k \in 1..Len(Ancestors(tree, i)) :
        tree[Ancestors(tree, i)[k]].kind \notin KnownContextKinds

\* C8: an object-type literal with zero members has no inline violation, whatever
\* its position, after either inline collector has run.
EmptyLiteralNotFlagged ==
    InlineDone =>
        \A i \in TypeLiterals : MemberCount(tree, i) = 0 => CollectedAt(i) = {}

\* C9: an object-type literal that is the constraint of a type parameter has no
\* inline violation, after either inline collector has run.
ConstraintLiteralNotFlagged ==
    InlineDone =>
        \A i \in TypeLiterals : tree[i].role = "constraint" => CollectedAt(i) = {}

\* C10: an object-type literal that has members and is not the constraint of a
\* type parameter has exactly one inline violation at its own place, whatever its
\* parent is, and the label is 'unknown context' when no ancestor gives a context.
EachLiteralFlaggedOnce ==
    InlineDone =>
        \A i \in TypeLiterals :
            (MemberCount(tree, i) > 0 /\ tree[i].role # "constraint") =>
                /\ Cardinality(CollectedAt(i)) = 1
                /\ NoKnownContext(i) =>
                      \A k \in CollectedAt(i) :
                          Collected[k].context = "unknown context"

-----------------------------------------------------------------------------
(* Context labels of collectInlineObjectTypes. *)

\* The label an ancestor a gives the literal below it, held through the node c
\* (Undefined: the ancestor matches no context).
AncestorLabel(a, c) ==
    IF tree[a].kind = "Parameter"
    THEN (IF tree[a].binding \in {"ObjectBindingPattern", "ArrayBindingPattern"}
          THEN "destructured parameter"
          ELSE "parameter '" \o tree[a].name \o "'")
    ELSE IF tree[a].kind \in TsFunctionLikeKinds /\ tree[c].role = "type"
    THEN "return type"
    ELSE IF tree[a].kind = "VariableDeclaration" /\ tree[a].binding = "Identifier"
    THEN "variable '" \o tree[a].name \o "'"
    ELSE IF tree[a].kind \in {"PropertyDeclaration", "PropertySignature"}
            /\ tree[a].binding = "Identifier"
    THEN "property '" \o tree[a].name \o "'"
    ELSE IF tree[a].kind \in {"AsExpression", "TypeAssertionExpression"}
    THEN "type assertion"
    ELSE IF tree[a].kind = "TypeReference" /\ tree[c].role = "typeArguments"
    THEN "generic argument"
    ELSE Undefined

\* The label of the nearest matching ancestor of node c.
RECURSIVE NearestLabel(_)
NearestLabel(c) ==
    IF tree[c].parent = 0 THEN Undefined
    ELSE IF AncestorLabel(tree[c].parent, c) # Undefined
    THEN AncestorLabel(tree[c].parent, c)
    ELSE NearestLabel(tree[c].parent)

\* C11: every violation of collectInlineObjectTypes carries the label of the
\* literal's nearest matching ancestor: parameter '<name>' (destructured parameter
\* for a destructuring pattern), return type, variable '<name>', property '<name>',
\* type assertion, generic argument.
LabelOfNearestAncestor ==
    inlinePc = "collectInlineObjectTypes" =>
        \A i \in TypeLiterals :
            \A k \in CollectedAt(i) : inlineTypeViolations[k].context = NearestLabel(i)

-----------------------------------------------------------------------------
(* JavaScript objects with string keys: a function from the own property   *)
(* names to the values.  {} is the empty function.                          *)

EmptyObject == [k \in {} |-> <<>>]

\* The property names every object inherits from Object.prototype.
ObjectPrototypeKeys ==
    {"constructor", "hasOwnProperty", "isPrototypeOf", "propertyIsEnumerable",
     "toLocaleString", "toString", "valueOf"}

\* key in object
HasProperty(object, key) == key \in DOMAIN object \/ key \in ObjectPrototypeKeys

\* object[key] is truthy, the own values being objects.
HasTruthy(object, key) == key \in DOMAIN object \/ key \in ObjectPrototypeKeys

\* object[key] = value
SetProperty(object, key, value) ==
    [k \in DOMAIN object \cup {key} |-> IF k = key THEN value ELSE object[k]]

\* String(value) of a property name: an absent property reads as undefined.
PropertyKey(record, field) ==
    IF field \in DOMAIN record THEN record[field] ELSE "undefined"

-----------------------------------------------------------------------------
(* path.relative(from, to) for a file below the directory from. *)

TargetDir == "/t"

PathRelative(from, to) ==
    IF Len(to) > Len(from) + 1 /\ SubSeq(to, 1, Len(from) + 1) = from \o "/"
    THEN SubSeq(to, Len(from) + 2, Len(to))
    ELSE to

\* path.join(targetDir, 'junk-object-types-suppressions.json')
SuppressionPath == TargetDir \o "/junk-object-types-suppressions.json"

-----------------------------------------------------------------------------
(* JSON.stringify(value, null, 2) and JSON.parse, for objects nested to a   *)
(* known depth with strings at the leaves (level 0: a string).  The strings *)
(* written hold no character that needs an escape.                          *)

RECURSIVE Spaces(_)
Spaces(n) == IF n = 0 THEN "" ELSE " " \o Spaces(n - 1)

RECURSIVE JsonStringifyValue(_, _, _)
RECURSIVE JsonStringifyMembers(_, _, _, _)
JsonStringifyValue(value, level, indent) ==
    IF level = 0 THEN "\"" \o value \o "\""
    ELSE IF DOMAIN value = {} THEN "{}"
    ELSE "{\n" \o JsonStringifyMembers(value, DOMAIN value, level, indent + 2)
         \o "\n" \o Spaces(indent) \o "}"

JsonStringifyMembers(object, keys, level, indent) ==
    LET k == CHOOSE key \in keys : TRUE IN
    Spaces(indent) \o "\"" \o k \o "\": "
    \o JsonStringifyValue(object[k], level - 1, indent)
    \o (IF keys = {k} THEN ""
        ELSE ",\n" \o JsonStringifyMembers(object, keys \ {k}, level, indent))

\* A SuppressionFile has three levels of objects above the reason strings.
JsonStringify(suppressions) == JsonStringifyValue(suppressions, 3, 0)

Char(text, pos) == IF pos > Len(text) THEN "" ELSE SubSeq(text, pos, pos)

RECURSIVE SkipWhitespace(_, _)
SkipWhitespace(text, pos) ==
    IF Char(text, pos) \in {" ", "\n", "\t", "\r"} THEN SkipWhitespace(text, pos + 1)
    ELSE pos

ParseResult(ok, value, pos) == [ok |-> ok, value |-> value, pos |-> pos]

SyntaxError == ParseResult(FALSE, EmptyObject, 0)

\* The closing quote of the string that opens before pos.
RECURSIVE StringEnd(_, _)
StringEnd(text, pos) ==
    IF pos > Len(text) THEN 0
    ELSE IF Char(text, pos) = "\"" THEN pos
    ELSE StringEnd(text, pos + 1)

JsonParseString(text, pos) ==
    IF Char(text, pos) # "\"" \/ StringEnd(text, pos + 1) = 0 THEN SyntaxError
    ELSE ParseResult(TRUE, SubSeq(text, pos + 1, StringEnd(text, pos + 1) - 1),
                 StringEnd(text, pos + 1) + 1)

RECURSIVE JsonParseValue(_, _)
RECURSIVE JsonParseMembers(_, _, _)
JsonParseValue(text, pos0) ==
    LET pos == SkipWhitespace(text, pos0) IN
    IF Char(text, pos) = "\"" THEN JsonParseString(text, pos)
    ELSE IF Char(text, pos) # "{" THEN SyntaxError
    ELSE IF Char(text, SkipWhitespace(text, pos + 1)) = "}"
    THEN ParseResult(TRUE, EmptyObject, SkipWhitespace(text, pos + 1) + 1)
    ELSE JsonParseMembers(text, pos + 1, EmptyObject)

\* The members of an object from pos on, after those read into object.
JsonParseMembers(text, pos0, object) ==
    LET key == JsonParseString(text, SkipWhitespace(text, pos0))
        colon == SkipWhitespace(text, key.pos)
        value == JsonParseValue(text, colon + 1)
        next == SkipWhitespace(text, value.pos)
    IN  IF ~key.ok \/ Char(text, colon) # ":" THEN SyntaxError
        ELSE IF ~value.ok THEN SyntaxError
        ELSE IF Char(text, next) = ","
        THEN JsonParseMembers(text, next + 1, SetProperty(object, key.value, value.value))
        ELSE IF Char(text, next) = "}"
        THEN ParseResult(TRUE, SetProperty(object, key.value, value.value), next + 1)
        ELSE SyntaxError

\* JSON.parse: ok is FALSE when it throws a SyntaxError.
JsonParse(text) ==
    LET value == JsonParseValue(text, 1) IN
    IF value.ok /\ SkipWhitespace(text, value.pos) > Len(text)
    THEN ParseResult(TRUE, value.value, value.pos)
    ELSE SyntaxError

-----------------------------------------------------------------------------
(* suppression.ts *)

\* The file at a path: absent, a regular file with its content, a directory, or
\* a file that is removed between existsSync and readFileSync (kind "removed").
FileState(kind, content) == [kind |-> kind, content |-> content]

AbsentFile == FileState("absent", "")

Returned(value) == [threw |-> FALSE, value |-> value, message |-> ""]

Thrown(message) == [threw |-> TRUE, value |-> EmptyObject, message |-> message]

\* loadSuppressions with a catch block that answers {} for every error.
LoadSuppressionsSwallowing(file, suppressionPath) ==
    IF file.kind \in {"absent", "removed", "directory"} THEN Returned(EmptyObject)
    ELSE IF JsonParse(file.content).ok THEN Returned(JsonParse(file.content).value)
    ELSE Returned(EmptyObject)

LoadSuppressions(file, suppressionPath) ==
    IF file.kind = "absent" THEN Returned(EmptyObject)
    ELSE IF file.kind = "removed" THEN Returned(EmptyObject)
    ELSE IF file.kind = "directory"
    THEN Thrown("Failed to load suppressions from " \o suppressionPath
                \o ": EISDIR: illegal operation on a directory, read")
    ELSE IF JsonParse(file.content).ok THEN Returned(JsonParse(file.content).value)
    ELSE Thrown("Failed to load suppressions from " \o suppressionPath
                \o ": Unexpected end of JSON input")

\* The file saveSuppressions writes.
SaveSuppressions(suppressions) == FileState("file", JsonStringify(suppressions) \o "\n")

IsSuppressed(violation, suppressions, targetDir) ==
    LET relativePath == PathRelative(targetDir, violation.filePath) IN
    IF relativePath \notin DOMAIN suppressions THEN FALSE
    ELSE HasProperty(suppressions[relativePath], PropertyKey(violation, "typeName"))

AutoSuppressed == [reason |-> "Auto-suppressed - add explanation here"]

RECURSIVE GenerateSuppressionsForAllFrom(_, _, _, _)
GenerateSuppressionsForAllFrom(violationList, k, targetDir, suppressions) ==
    IF k > Len(violationList) THEN suppressions
    ELSE LET relativePath == PathRelative(targetDir, violationList[k].filePath)
             forFile == IF HasTruthy(suppressions, relativePath)
                        THEN suppressions[relativePath] ELSE EmptyObject
         IN  GenerateSuppressionsForAllFrom(
                 violationList, k + 1, targetDir,
                 SetProperty(suppressions, relativePath,
                             SetProperty(forFile,
                                         PropertyKey(violationList[k], "typeName"),
                                         AutoSuppressed)))

GenerateSuppressionsForAll(violationList, targetDir) ==
    GenerateSuppressionsForAllFrom(violationList, 1, targetDir, EmptyObject)

\* The inner loop of mergeSuppressions over the entries left of one file.
RECURSIVE MergeEntries(_, _, _)
MergeEntries(mergedFile, typeSuppressions, keys) ==
    IF keys = {} THEN mergedFile
    ELSE LET typeName == CHOOSE key \in keys : TRUE IN
         MergeEntries(IF ~HasTruthy(mergedFile, typeName)
                      THEN SetProperty(mergedFile, typeName, typeSuppressions[typeName])
                      ELSE mergedFile,
                      typeSuppressions, keys \ {typeName})

\* The outer loop of mergeSuppressions over the files left of newSuppressions.
RECURSIVE MergeFiles(_, _, _)
MergeFiles(merged, newSuppressions, filePaths) ==
    IF filePaths = {} THEN merged
    ELSE LET filePath == CHOOSE f \in filePaths : TRUE
             mergedFile == IF HasTruthy(merged, filePath)
                           THEN merged[filePath] ELSE EmptyObject
         IN  MergeFiles(SetProperty(merged, filePath,
                                    MergeEntries(mergedFile, newSuppressions[filePath],
                                                 DOMAIN newSuppressions[filePath])),
                        newSuppressions, filePaths \ {filePath})

MergeSuppressions(existing, newSuppressions) ==
    MergeFiles(existing, newSuppressions, DOMAIN newSuppressions)

\* The argument existing after mergeSuppressions: merged is a shallow copy, so
\* the inner objects of existing are the ones the loop writes to.
ExistingAfterMerge(existing, newSuppressions) ==
    [filePath \in DOMAIN existing |-> MergeSuppressions(existing, newSuppressions)[filePath]]

InlineKey(violation) ==
    "inline:" \o ToString(violation.line) \o ":" \o ToString(violation.column)

IsInlineSuppressed(violation, suppressions, targetDir) ==
    LET relativePath == PathRelative(targetDir, violation.filePath) IN
    relativePath \in DOMAIN suppressions
        /\ HasProperty(suppressions[relativePath], InlineKey(violation))

RECURSIVE GenerateInlineSuppressionsFrom(_, _, _, _)
GenerateInlineSuppressionsFrom(violationList, k, targetDir, suppressions) ==
    IF k > Len(violationList) THEN suppressions
    ELSE LET relativePath == PathRelative(targetDir, violationList[k].filePath)
             forFile == IF HasTruthy(suppressions, relativePath)
                        THEN suppressions[relativePath] ELSE EmptyObject
         IN  GenerateInlineSuppressionsFrom(
                 violationList, k + 1, targetDir,
                 SetProperty(suppressions, relativePath,
                             SetProperty(forFile, InlineKey(violationList[k]),
                                         [reason |-> violationList[k].context])))

\* Variant: no suppressions are generated for the inline violations.
GenerateInlineSuppressionsNone(violationList, targetDir) == EmptyObject

GenerateInlineSuppressions(violationList, targetDir) ==
    GenerateInlineSuppressionsFrom(violationList, 1, targetDir, EmptyObject)

-----------------------------------------------------------------------------
(* Calls of the functions of suppression.ts on arguments of their types. *)

\* Length of the lists of violations handed to suppression.ts.
MaxViolations == 2

RelativePaths == {PathRelative(TargetDir, FileNames[f]) : f \in 1..Len(FileNames)}

\* Violations of the two kinds of the Violation union, and of InlineTypeViolation.
NamedViolations ==
    {[kind |-> "single-use-named", typeName |-> name, filePath |-> FileNames[f],
      line |-> (IF name = "A" THEN 1 ELSE 2), column |-> 1, usedByFunction |-> "f"] :
        name \in {"A", "toString"}, f \in 1..Len(FileNames)}

InlineObjectViolations ==
    {[kind |-> "inline-object", context |-> "function parameter",
      filePath |-> FileNames[f], line |-> 3, column |-> 5] : f \in 1..Len(FileNames)}

InlineTypeViolations ==
    {[filePath |-> FileNames[f], line |-> 3, column |-> 5,
      context |-> "parameter 'opts'"] : f \in 1..Len(FileNames)}

ListsOf(S) == UNION {[1..n -> S] : n \in 0..MaxViolations}

Entry(reason) == [reason |-> reason]

\* Suppression files: none, a file without entries, entries under a type name,
\* under line:column, under inline:line:column, and an entry without a reason.
SuppressionFiles ==
    {EmptyObject,
     "src/a.ts" :> EmptyObject,
     "src/a.ts" :> ("A" :> Entry("kept")),
     "src/a.ts" :> ("3:5" :> Entry("kept")),
     "src/a.ts" :> (("A" :> Entry("kept")) @@ ("inline:3:5" :> EmptyObject)),
     ("src/a.ts" :> ("toString" :> Entry("kept"))) @@ ("src/b.ts" :> ("A" :> Entry("b")))}

\* What can be at the suppression path.
SuppressionFileStates ==
    {AbsentFile, FileState("removed", "{}"), FileState("directory", ""),
     FileState("file", ""), FileState("file", "{ \"src/a.ts\": "),
     FileState("file", "{\"src/a.ts\":{\"A\":{\"reason\":\"kept\"}}}")}
    \cup {SaveSuppressions(m) : m \in SuppressionFiles}

InitStoreInputs ==
    /\ storePc = "input"
    /\ disk \in SuppressionFileStates
    /\ existingArg \in SuppressionFiles
    /\ newArg \in SuppressionFiles
    /\ violationsArg \in ListsOf(NamedViolations \cup InlineObjectViolations)
                         \cup ListsOf(InlineTypeViolations)
    /\ returned = <<>>

IsViolationList(list) == \A k \in 1..Len(list) : "kind" \in DOMAIN list[k]

CallLoadSuppressions ==
    /\ storePc = "input"
    /\ storePc' = "loadSuppressions"
    /\ returned' = LoadSuppressions(disk, SuppressionPath)
    /\ UNCHANGED <<disk, existingArg, newArg, violationsArg>>
    /\ UNCHANGED <<analysisVars, inlineVars, cliVars, previousRun>>

CallSaveSuppressions ==
    /\ storePc = "input"
    /\ storePc' = "saveSuppressions"
    /\ disk' = SaveSuppressions(existingArg)
    /\ returned' = <<>>
    /\ UNCHANGED <<existingArg, newArg, violationsArg>>
    /\ UNCHANGED <<analysisVars, inlineVars, cliVars, previousRun>>

CallIsSuppressed ==
    /\ storePc = "input"
    /\ IsViolationList(violationsArg)
    /\ \E k \in 1..Len(violationsArg) :
          returned' = [violation |-> violationsArg[k],
                       value |-> IsSuppressed(violationsArg[k], existingArg, TargetDir)]
    /\ storePc' = "isSuppressed"
    /\ UNCHANGED <<disk, existingArg, newArg, violationsArg>>
    /\ UNCHANGED <<analysisVars, inlineVars, cliVars, previousRun>>

CallGenerateSuppressionsForAll ==
    /\ storePc = "input"
    /\ IsViolationList(violationsArg)
    /\ returned' = GenerateSuppressionsForAll(violationsArg, TargetDir)
    /\ storePc' = "generateSuppressionsForAll"
    /\ UNCHANGED <<disk, existingArg, newArg, violationsArg>>
    /\ UNCHANGED <<analysisVars, inlineVars, cliVars, previousRun>>

CallMergeSuppressions ==
    /\ storePc = "input"
    /\ returned' = [existing |-> existingArg,
                    value |-> MergeSuppressions(existingArg, newArg)]
    /\ existingArg' = ExistingAfterMerge(existingArg, newArg)
    /\ storePc' = "mergeSuppressions"
    /\ UNCHANGED <<disk, newArg, violationsArg>>
    /\ UNCHANGED <<analysisVars, inlineVars, cliVars, previousRun>>

CallIsInlineSuppressed ==
    /\ storePc = "input"
    /\ ~IsViolationList(violationsArg)
    /\ \E k \in 1..Len(violationsArg) :
          returned' = [violation |-> violationsArg[k],
                       value |-> IsInlineSuppressed(violationsArg[k], existingArg, TargetDir)]
    /\ storePc' = "isInlineSuppressed"
    /\ UNCHANGED <<disk, existingArg, newArg, violationsArg>>
    /\ UNCHANGED <<analysisVars, inlineVars, cliVars, previousRun>>

CallGenerateInlineSuppressions ==
    /\ storePc = "input"
    /\ \A k \in 1..Len(violationsArg) : "kind" \notin DOMAIN violationsArg[k]
    /\ returned' = GenerateInlineSuppressions(violationsArg, TargetDir)
    /\ storePc' = "generateInlineSuppressions"
    /\ UNCHANGED <<disk, existingArg, newArg, violationsArg>>
    /\ UNCHANGED <<analysisVars, inlineVars, cliVars, previousRun>>

NextStore ==
    \/ CallLoadSuppressions
    \/ CallSaveSuppressions
    \/ CallIsSuppressed
    \/ CallGenerateSuppressionsForAll
    \/ CallMergeSuppressions
    \/ CallIsInlineSuppressed
    \/ CallGenerateInlineSuppressions

StoreInit == InitAnalysis /\ InitInline /\ InitStoreInputs /\ InitCli /\ InitRerun

SpecStore == StoreInit /\ [][NextStore]_vars

StoreTypeOK == storePc \in {"input", "loadSuppressions", "saveSuppressions", "isSuppressed",
                            "generateSuppressionsForAll", "mergeSuppressions",
                            "isInlineSuppressed", "generateInlineSuppressions"}

-----------------------------------------------------------------------------
(* Properties of the suppression store. *)

\* The lookup key: the type name of a single-use-named violation, line:column of
\* an inline-object violation.
LookupKey(violation) ==
    IF violation.kind = "single-use-named" THEN violation.typeName
    ELSE ToString(violation.line) \o ":" \o ToString(violation.column)

\* The (file, key) pairs of a SuppressionFile.
Pairs(suppressions) ==
    UNION {{<<filePath, key>> : key \in DOMAIN suppressions[filePath]} :
              filePath \in DOMAIN suppressions}

\* C12: isSuppressed answers true exactly when the violation's lookup key (type
\* name, or line:column for an inline-object violation) is present under its
\* relative path, and generateSuppressionsForAll writes for every violation an
\* entry under that key whose reason holds 'Auto-suppressed'.
SuppressionKeyIsLookupKey ==
    /\ storePc = "isSuppressed" =>
          (returned.value <=>
              <<PathRelative(TargetDir, returned.violation.filePath),
                LookupKey(returned.violation)>> \in Pairs(existingArg))
    /\ storePc = "generateSuppressionsForAll" =>
          \A k \in 1..Len(violationsArg) :
              /\ <<PathRelative(TargetDir, violationsArg[k].filePath),
                   LookupKey(violationsArg[k])>> \in Pairs(returned)
              /\ SubSeq(returned[PathRelative(TargetDir, violationsArg[k].filePath)]
                                [LookupKey(violationsArg[k])].reason, 1, 15)
                     = "Auto-suppressed"

\* C14: mergeSuppressions returns exactly the union of the (file, key) pairs of
\* its two arguments, and a pair of `existing` keeps the entry of `existing`.
MergeIsUnionExistingWins ==
    storePc = "mergeSuppressions" =>
        /\ Pairs(returned.value) = Pairs(returned.existing) \cup Pairs(newArg)
        /\ \A pair \in Pairs(returned.existing) :
              returned.value[pair[1]][pair[2]] = returned.existing[pair[1]][pair[2]]

\* The same statement for keys that are not names of Object.prototype.
MergeIsUnionOwnKeys ==
    (storePc = "mergeSuppressions"
        /\ \A pair \in Pairs(newArg) : pair[2] \notin ObjectPrototypeKeys)
    => /\ Pairs(returned.value) = Pairs(returned.existing) \cup Pairs(newArg)
       /\ \A pair \in Pairs(returned.existing) :
             returned.value[pair[1]][pair[2]] = returned.existing[pair[1]][pair[2]]

\* part occurs in text.
Contains(text, part) ==
    \E i \in 1..(Len(text) - Len(part) + 1) : SubSeq(text, i, i + Len(part) - 1) = part

\* Texts that are not JSON.
MalformedContents == {"", "{ \"src/a.ts\": "}

\* The maps stored in the files of SuppressionFileStates that hold valid JSON.
StoredMaps ==
    {<<SaveSuppressions(m), m>> : m \in SuppressionFiles}
    \cup {<<FileState("file", "{\"src/a.ts\":{\"A\":{\"reason\":\"kept\"}}}"),
            "src/a.ts" :> ("A" :> Entry("kept"))>>}

\* C15: loadSuppressions returns the empty map when the file is missing, the
\* stored map when the file holds valid JSON, and throws an error that names
\* the path when the file is malformed.
LoadReturnsStoredMapOrThrows ==
    storePc = "loadSuppressions" =>
        /\ disk.kind \in {"absent", "removed"} => returned = Returned(EmptyObject)
        /\ \A stored \in StoredMaps : disk = stored[1] => returned = Returned(stored[2])
        /\ (disk.kind = "file" /\ disk.content \in MalformedContents) =>
              /\ returned.threw
              /\ Contains(returned.message, SuppressionPath)
        /\ \/ disk.kind \in {"absent", "removed", "directory"}
           \/ disk.content \in MalformedContents
           \/ \E stored \in StoredMaps : disk = stored[1]

LoadReturnsStoredMapOrThrowsWitness ==
    /\ storePc = "loadSuppressions"
    /\ disk = FileState("file", "{ \"src/a.ts\": ")
    /\ returned.threw

\* Node i lies inside the constraint of a type parameter without being it.
NestedInConstraint(i) ==
    /\ tree[i].role # "constraint"
    /\ \E k \in 1..Len(Ancestors(tree, i)) : tree[Ancestors(tree, i)[k]].role = "constraint"

\* C19: an object-type literal with members that lies inside the constraint of a
\* type parameter, and is not the constraint itself, has an inline violation
\* after collectInlineObjectTypes.
NestedConstraintLiteralFlagged ==
    inlinePc = "collectInlineObjectTypes" =>
        \A i \in TypeLiterals :
            (MemberCount(tree, i) > 0 /\ NestedInConstraint(i)) => CollectedAt(i) # {}

\* The recorded `variable` usages of a type name at the line of node i.
VariableUsagesAt(name, i) ==
    {k \in 1..Len(RecordedUsages(name)) :
        /\ RecordedUsages(name)[k].usageContext = "variable"
        /\ RecordedUsages(name)[k].filePath = FileNames[nodes[i].file]
        /\ RecordedUsages(name)[k].line = GetLineAndColumn(nodes[i]).line}

\* C20: every variable declaration whose annotation names a type, whether it
\* binds an identifier or a destructuring pattern, has a `variable` usage
\* recorded for each type the annotation names.
VariableUsageRecorded ==
    Done =>
        \A i \in 1..Len(nodes) :
            nodes[i].kind = "VariableDeclaration" =>
                \A k \in 1..Len(ExtractAllTypeNames(nodes[i].type)) :
                    VariableUsagesAt(ExtractAllTypeNames(nodes[i].type)[k], i) # {}

\* The same statement for the declarations that bind a destructuring pattern.
PatternVariableUsageRecorded ==
    Done =>
        \A i \in 1..Len(nodes) :
            (nodes[i].kind = "VariableDeclaration" /\ nodes[i].name = Undefined) =>
                \A k \in 1..Len(ExtractAllTypeNames(nodes[i].type)) :
                    VariableUsagesAt(ExtractAllTypeNames(nodes[i].type)[k], i) # {}

-----------------------------------------------------------------------------
(* cli.ts and git.ts: one run of the command, and the run after a          *)
(* --suppress-all run.                                                      *)

\* The arguments parseArgs yields (targetDir is TargetDir).
ParsedArgs ==
    [suppressAll : BOOLEAN, changedOnly : BOOLEAN,
     files : {<<>>, <<FileNames[1]>>}, help : BOOLEAN]

\* What git answers: files changed in the target, none changed, no repository
\* above the target, or `git diff` against origin/main failing.
GitOutcomes == {"changed", "unchanged", "no repository", "diff failed"}

\* The index of a file in the list of the analysed files.
FileIndex(filePath) == CHOOSE f \in 1..Len(FileNames) : FileNames[f] = filePath

\* The analysis goes through the files in their order and through a file from
\* its start, and reports a place once.
InSourceOrder(list) ==
    \A k \in 1..(Len(list) - 1) :
        \/ FileIndex(list[k].filePath) < FileIndex(list[k + 1].filePath)
        \/ /\ list[k].filePath = list[k + 1].filePath
           /\ list[k].line < list[k + 1].line

\* The results analyzeCodebase can return: at most MaxViolations violations.
AnalysisResults ==
    {AnalysisResult(TRUE, vs, is) :
        vs \in {list \in ListsOf(NamedViolations \cup InlineObjectViolations) :
                   InSourceOrder(list)},
        is \in {list \in ListsOf(InlineTypeViolations) : InSourceOrder(list)}}

\* process.exit(status); error is the message main().catch printed.
Exit(status, error) ==
    /\ cliPc' = "exited"
    /\ exit' = [status |-> status, error |-> error]

\* main().catch(error => { ...; process.exit(1) })
MainCatch(error) == Exit(1, error)

\* getChangedFiles: the changed source files, [] when git diff fails.
GetChangedFiles(git) == IF git = "changed" THEN <<FileNames[1]>> ELSE <<>>

\* findRepoRoot throws when no directory above the target is a repository.
FindRepoRootThrows(git) == git = "no repository"

\* getChangedFilesForCheck: exits is TRUE when it ends the run with status 0.
GetChangedFilesForCheck(git) ==
    IF FindRepoRootThrows(git) THEN [exits |-> FALSE, value |-> FilesToCheck(FALSE, <<>>)]
    ELSE IF Len(GetChangedFiles(git)) = 0
    THEN [exits |-> TRUE, value |-> FilesToCheck(FALSE, <<>>)]
    ELSE [exits |-> FALSE, value |-> FilesToCheck(TRUE, GetChangedFiles(git))]

DetermineFilesToCheck(parsed, git) ==
    IF Len(parsed.files) > 0 THEN [exits |-> FALSE, value |-> FilesToCheck(TRUE, parsed.files)]
    ELSE IF parsed.changedOnly THEN GetChangedFilesForCheck(git)
    ELSE [exits |-> FALSE, value |-> FilesToCheck(FALSE, <<>>)]

FilterSuppressedViolations(analysis, suppressions, targetDir) ==
    FilteredViolationsResult(
        SelectSeq(analysis.violations, LAMBDA v : ~IsSuppressed(v, suppressions, targetDir)),
        SelectSeq(analysis.inlineViolations,
               LAMBDA v : ~IsInlineSuppressed(v, suppressions, targetDir)))

\* Variant: the entries of the loaded map are not carried over.
MergedSuppressionsNewOnly(unsuppressed, suppressions, targetDir) ==
    MergeSuppressions(
        MergeSuppressions([filePath \in DOMAIN suppressions |-> EmptyObject],
            GenerateSuppressionsForAll(unsuppressed.unsuppressedViolations, targetDir)),
        GenerateInlineSuppressions(unsuppressed.unsuppressedInlineViolations, targetDir))

\* The map handleSuppressAll saves.
MergedSuppressions(unsuppressed, suppressions, targetDir) ==
    MergeSuppressions(
        MergeSuppressions(suppressions,
            GenerateSuppressionsForAll(unsuppressed.unsuppressedViolations, targetDir)),
        GenerateInlineSuppressions(unsuppressed.unsuppressedInlineViolations, targetDir))

\* A run starts: what it finds on disk, in git and on the command line.
InitCliInputs ==
    /\ cliPc = "main"
    /\ args \in ParsedArgs
    /\ env \in [git : GitOutcomes, srcDir : BOOLEAN]
    /\ loaded = <<>>
    /\ filesToCheck = FilesToCheck(FALSE, <<>>)
    /\ result = AnalysisResult(FALSE, <<>>, <<>>)
    /\ filtered = FilteredViolationsResult(<<>>, <<>>)
    /\ exit = [status |-> 0, error |-> ""]
    /\ suppressAllRun = [ran |-> FALSE, existing |-> <<>>,
                         filtered |-> FilteredViolationsResult(<<>>, <<>>)]
    /\ storePc = "input"
    /\ disk \in SuppressionFileStates
    /\ existingArg = <<>>
    /\ newArg = <<>>
    /\ violationsArg = <<>>
    /\ returned = <<>>

\* main: --help prints the help and exits.
Main ==
    /\ cliPc = "main"
    /\ IF args.help
       THEN Exit(0, "")
       ELSE cliPc' = "runAnalysis" /\ UNCHANGED exit
    /\ UNCHANGED <<args, env, loaded, filesToCheck, result, filtered, suppressAllRun>>
    /\ UNCHANGED <<analysisVars, inlineVars, storeVars, previousRun>>

\* runAnalysis: loadSuppressions(suppressionPath).
RunAnalysisLoad ==
    /\ cliPc = "runAnalysis"
    /\ LET value == LoadSuppressions(disk, SuppressionPath) IN
       IF value.threw
       THEN MainCatch(value.message) /\ UNCHANGED loaded
       ELSE /\ cliPc' = "determineFilesToCheck"
            /\ loaded' = value.value
            /\ UNCHANGED exit
    /\ UNCHANGED <<args, env, filesToCheck, result, filtered, suppressAllRun>>
    /\ UNCHANGED <<analysisVars, inlineVars, storeVars, previousRun>>

\* runAnalysis: determineFilesToCheck(args, targetDir).
RunAnalysisDetermineFiles ==
    /\ cliPc = "determineFilesToCheck"
    /\ LET value == DetermineFilesToCheck(args, env.git) IN
       IF value.exits
       THEN Exit(0, "") /\ UNCHANGED filesToCheck
       ELSE /\ cliPc' = "analyzeCodebase"
            /\ filesToCheck' = value.value
            /\ UNCHANGED exit
    /\ UNCHANGED <<args, env, loaded, result, filtered, suppressAllRun>>
    /\ UNCHANGED <<analysisVars, inlineVars, storeVars, previousRun>>

\* runAnalysis: analyzeCodebase({ targetDir, specificFiles }) and
\* filterSuppressedViolations.  getFilesToAnalyze throws without a src
\* directory.  The run after a --suppress-all run analyses the same files.
RunAnalysisAnalyze ==
    /\ cliPc = "analyzeCodebase"
    /\ IF ~env.srcDir
       THEN /\ MainCatch("Source directory not found: " \o TargetDir \o "/src")
            /\ UNCHANGED <<result, filtered>>
       ELSE /\ \E analysis \in AnalysisResults :
                 /\ Len(analysis.violations) + Len(analysis.inlineViolations) <= MaxViolations
                 /\ suppressAllRun.ran => analysis = result
                 /\ result' = analysis
                 /\ filtered' = FilterSuppressedViolations(analysis, loaded, TargetDir)
            /\ cliPc' = "filtered"
            /\ UNCHANGED exit
    /\ UNCHANGED <<args, env, loaded, filesToCheck, suppressAllRun>>
    /\ UNCHANGED <<analysisVars, inlineVars, storeVars, previousRun>>

\* handleSuppressAll: the merge writes into the inner objects of `suppressions`.
HandleSuppressAll ==
    /\ cliPc = "filtered"
    /\ args.suppressAll
    /\ disk' = SaveSuppressions(MergedSuppressions(filtered, loaded, TargetDir))
    /\ loaded' = [filePath \in DOMAIN loaded |->
                     MergedSuppressions(filtered, loaded, TargetDir)[filePath]]
    /\ suppressAllRun' = [suppressAllRun EXCEPT !.existing = loaded, !.filtered = filtered]
    /\ Exit(0, "")
    /\ UNCHANGED <<args, env, filesToCheck, result, filtered>>
    /\ UNCHANGED <<storePc, existingArg, newArg, violationsArg, returned>>
    /\ UNCHANGED <<analysisVars, inlineVars, previousRun>>

HandleViolationResults ==
    /\ cliPc = "filtered"
    /\ ~args.suppressAll
    /\ LET hasViolations == \/ Len(filtered.unsuppressedViolations) > 0
                            \/ Len(filtered.unsuppressedInlineViolations) > 0
       IN  Exit(IF hasViolations THEN 1 ELSE 0, "")
    /\ UNCHANGED <<args, env, loaded, filesToCheck, result, filtered, suppressAllRun>>
    /\ UNCHANGED <<analysisVars, inlineVars, storeVars, previousRun>>

\* The command is run again, without --suppress-all, after a --suppress-all run
\* that saved the file.
RunAfterSuppressAll ==
    /\ cliPc = "exited"
    /\ args.suppressAll
    /\ result.analysed
    /\ ~suppressAllRun.ran
    /\ suppressAllRun' = [suppressAllRun EXCEPT !.ran = TRUE]
    /\ args' = [args EXCEPT !.suppressAll = FALSE]
    /\ cliPc' = "main"
    /\ loaded' = <<>>
    /\ filtered' = FilteredViolationsResult(<<>>, <<>>)
    /\ exit' = [status |-> 0, error |-> ""]
    /\ UNCHANGED <<env, filesToCheck, result>>
    /\ UNCHANGED <<analysisVars, inlineVars, storeVars, previousRun>>

NextCli ==
    \/ Main
    \/ RunAnalysisLoad
    \/ RunAnalysisDetermineFiles
    \/ RunAnalysisAnalyze
    \/ HandleSuppressAll
    \/ HandleViolationResults
    \/ RunAfterSuppressAll

CliInit == InitAnalysis /\ InitInline /\ InitCliInputs /\ InitRerun

SpecCli == CliInit /\ [][NextCli]_vars

CliTypeOK ==
    cliPc \in {"main", "runAnalysis", "determineFilesToCheck", "analyzeCodebase",
               "filtered", "exited"}

-----------------------------------------------------------------------------
(* Properties of the command-line run. *)

\* The run after a --suppress-all run has loaded the suppression file.
LoadedAfterSuppressAll ==
    suppressAllRun.ran /\ cliPc \in {"determineFilesToCheck", "analyzeCodebase",
                                     "filtered", "exited"}

\* C13: after a --suppress-all run (generate, merge into the loaded map, save)
\* the next run loads a map under which every violation the first run found
\* unsuppressed is suppressed, and which holds every entry of the map the first
\* run had loaded, with the same reason.
RoundTripSuppressesAndKeeps ==
    LoadedAfterSuppressAll =>
        /\ exit.error = ""
        /\ \A k \in 1..Len(suppressAllRun.filtered.unsuppressedViolations) :
              IsSuppressed(suppressAllRun.filtered.unsuppressedViolations[k], loaded, TargetDir)
        /\ \A k \in 1..Len(suppressAllRun.filtered.unsuppressedInlineViolations) :
              IsInlineSuppressed(suppressAllRun.filtered.unsuppressedInlineViolations[k],
                                 loaded, TargetDir)
        /\ \A pair \in Pairs(suppressAllRun.existing) :
              /\ pair \in Pairs(loaded)
              /\ loaded[pair[1]][pair[2]] = suppressAllRun.existing[pair[1]][pair[2]]
        /\ cliPc \in {"filtered", "exited"} =>
              filtered = FilteredViolationsResult(<<>>, <<>>)

RoundTripSuppressesAndKeepsWitness ==
    /\ LoadedAfterSuppressAll
    /\ cliPc = "exited"
    /\ \E k \in 1..Len(suppressAllRun.filtered.unsuppressedViolations) :
          suppressAllRun.filtered.unsuppressedViolations[k].kind = "inline-object"
    /\ Len(suppressAllRun.filtered.unsuppressedInlineViolations) > 0
    /\ Pairs(suppressAllRun.existing) # {}
    /\ exit.status = 0

\* The run found a violation that no suppression covers.
HasUnsuppressed ==
    \/ Len(filtered.unsuppressedViolations) > 0
    \/ Len(filtered.unsuppressedInlineViolations) > 0

\* The run analysed the code and reported what it found.
Reported == cliPc = "exited" /\ exit.error = "" /\ result.analysed /\ ~args.suppressAll

\* C16: a run that reports ends with status 0 exactly when no unsuppressed
\* violation is left and with status 1 exactly when one is, and a run that hits
\* a fatal error (no source directory, malformed suppression file) ends with
\* status 2.
ExitStatusContract ==
    /\ Reported => /\ exit.status = 0 <=> ~HasUnsuppressed
                   /\ exit.status = 1 <=> HasUnsuppressed
    /\ (cliPc = "exited" /\ exit.error # "") => exit.status = 2

\* The part of the statement about the statuses 0 and 1.
ExitStatusOfReport ==
    Reported => /\ exit.status = 0 <=> ~HasUnsuppressed
                /\ exit.status = 1 <=> HasUnsuppressed

\* The run asked for the changed files only, and git could not tell them.
ChangeDetectionFailed(outcomes) ==
    /\ cliPc = "exited"
    /\ ~args.help
    /\ args.changedOnly
    /\ Len(args.files) = 0
    /\ env.git \in outcomes
    /\ exit.error = ""

\* The run analysed every file of the source directory and its status tells
\* whether an unsuppressed violation is left.
AnalysedFullFileSet ==
    /\ result.analysed
    /\ ~filesToCheck.defined
    /\ ~args.suppressAll => exit.status = (IF HasUnsuppressed THEN 1 ELSE 0)

\* C17: with --changed-only, a failure of the change detection (no repository,
\* or git diff failing) does not end the run: the full file set is analysed and
\* the exit status is that of its violations.
ChangeDetectionFailureFallsBack ==
    ChangeDetectionFailed({"no repository", "diff failed"}) => AnalysedFullFileSet

\* The same statement for the one failure of finding the repository.
NoRepositoryFallsBack ==
    ChangeDetectionFailed({"no repository"}) => AnalysedFullFileSet

-----------------------------------------------------------------------------
(* The analysis run a second time on the same files. *)

\* analyzeCodebase is called again: the unchanged files parse to the same nodes,
\* analyzeSourceFiles makes new Maps and findViolations a new array.
AnalyzeCodebaseAgain ==
    /\ pc = "done"
    /\ ~previousRun.ran
    /\ previousRun' = [previousRun EXCEPT !.ran = TRUE, !.violations = violations]
    /\ pc' = "collect"
    /\ fileIdx' = 1
    /\ typeDefinitions' = <<>>
    /\ typeUsages' = <<>>
    /\ violations' = <<>>
    /\ UNCHANGED nodes
    /\ UNCHANGED <<inlineVars, storeVars, cliVars>>

\* The inline collector is called again on the same file: its array is new.
CollectInlineAgain ==
    /\ inlinePc \in {"collectInlineObjectViolations", "collectInlineObjectTypes"}
    /\ ~previousRun.ran
    /\ previousRun' = [previousRun EXCEPT !.ran = TRUE, !.collector = inlinePc,
                                          !.inline = Collected]
    /\ inlinePc' = "parsed"
    /\ inlineObjectViolations' = <<>>
    /\ inlineTypeViolations' = <<>>
    /\ UNCHANGED tree
    /\ UNCHANGED <<analysisVars, storeVars, cliVars>>

\* The number of nodes of the files that are analysed twice.
MaxRerunNodes == 2

\* Either the single-use analysis or an inline collector runs, then runs again.
NextRerun ==
    \/ (inlinePc = "parse" /\ tree = <<>> /\ Next /\ Len(nodes') <= MaxRerunNodes)
    \/ (pc = "parse" /\ nodes = <<>> /\ NextInline /\ Len(tree') <= MaxRerunNodes)
    \/ AnalyzeCodebaseAgain
    \/ CollectInlineAgain

SpecRerun == Init /\ [][NextRerun]_vars

\* The members of a list of violations.
Members(list) == {list[k] : k \in 1..Len(list)}

SecondInlineRunReached ==
    /\ previousRun.ran
    /\ inlinePc = previousRun.collector
    /\ Len(Collected) > 0

-----------------------------------------------------------------------------
(* Properties of the usage walk. *)

\* Every recorded usage.
AllUsages ==
    UNION {{typeUsages[name][k] : k \in 1..Len(typeUsages[name])} : name \in DOMAIN typeUsages}

\* The usages recorded at the line of node i with one of the given contexts.
UsagesAtNode(i, contexts) ==
    {u \in AllUsages : /\ u.filePath = FileNames[nodes[i].file]
                       /\ u.line = GetLineAndColumn(nodes[i]).line
                       /\ u.usageContext \in contexts}

\* Node i is a function-like construct without a name of its own, directly
\* inside a named function declaration or method.
UnnamedInsideNamedFunction(i) ==
    /\ IsFunctionLike(nodes[i])
    /\ GetFunctionName(nodes, i) = Undefined
    /\ nodes[i].parent # 0
    /\ nodes[nodes[i].parent].kind \in {"FunctionDeclaration", "MethodDeclaration"}
    /\ nodes[nodes[i].parent].name # Undefined

\* C21: a usage in the parameter or return annotation of an unnamed
\* function-like construct nested in a named function declaration or method is
\* attributed to the name of that enclosing function.
NestedUsageAttributedToEnclosing ==
    Done =>
        \A i \in 1..Len(nodes) :
            UnnamedInsideNamedFunction(i) =>
                \A u \in UsagesAtNode(i, {"function-param", "function-return"}) :
                    u.functionName = nodes[nodes[i].parent].name

\* The name of the nearest variable declaration with an identifier binding among
\* the given ancestors (nearest first), Undefined when there is none.
RECURSIVE NearestVariableName(_)
NearestVariableName(ancestors) ==
    IF ancestors = <<>> THEN Undefined
    ELSE IF /\ nodes[Head(ancestors)].kind = "VariableDeclaration"
            /\ nodes[Head(ancestors)].name # Undefined
    THEN nodes[Head(ancestors)].name
    ELSE NearestVariableName(Tail(ancestors))

\* The name a usage of function-like node i is attributed to when the ambient
\* name is that of the innermost variable declaration open around the node.
AttributedName(i) ==
    IF GetFunctionName(nodes, i) # Undefined THEN GetFunctionName(nodes, i)
    ELSE NearestVariableName(Ancestors(nodes, i))

-----------------------------------------------------------------------------
(* The usage walk over one declaration whose annotation is a nested type. *)

\* Nesting depth of the annotations.
MaxTypeDepth == 2

\* Annotations of nesting depth at most d: the named types A and B, string,
\* Map<string, T>, T[], and unions and intersections of a named type and T.
RECURSIVE Annotations(_)
Annotations(d) ==
    IF d = 0 THEN {Ref("A"), Ref("B"), StringKeyword}
    ELSE LET inner == Annotations(d - 1) IN
         inner
         \cup {TypeNode("TypeReference", "Map", <<StringKeyword, t>>) : t \in inner}
         \cup {TypeNode("ArrayType", Undefined, <<t>>) : t \in inner}
         \cup {TypeNode(kind, Undefined, <<a, t>>) :
                  kind \in {"UnionType", "IntersectionType"},
                  a \in {Ref("A"), Ref("B")}, t \in inner}

\* A function with the annotation on its parameter, a function with it as its
\* return type, an interface with it on a property.
AnnotatedNodes ==
    {Node("FunctionDeclaration", "f", FALSE, <<>>, <<t>>, NoType, <<>>) :
        t \in Annotations(MaxTypeDepth)}
    \cup {Node("FunctionDeclaration", "f", FALSE, <<>>, <<>>, t, <<>>) :
             t \in Annotations(MaxTypeDepth)}
    \cup {Node("InterfaceDeclaration", "I", FALSE, <<>>, <<>>, NoType, <<t>>) :
             t \in Annotations(MaxTypeDepth)}

\* The program is one annotated declaration in the first file.
InitAnnotated ==
    /\ pc = "parse"
    /\ \E node \in AnnotatedNodes :
          nodes = <<[kind |-> node.kind, name |-> node.name, isExported |-> node.isExported,
                     heritage |-> node.heritage, params |-> node.params,
                     type |-> node.type, members |-> node.members, file |-> 1,
                     parent |-> 0, start |-> [line |-> 0, character |-> 0]]>>
    /\ fileIdx = 1
    /\ typeDefinitions = <<>>
    /\ typeUsages = <<>>
    /\ violations = <<>>

AnnotatedInit == InitAnnotated /\ InitInline /\ InitStore /\ InitCli /\ InitRerun

NextAnnotated == AnalyzeSourceFile \/ AnalyzeCodebaseResult

SpecAnnotated == AnnotatedInit /\ [][NextAnnotated]_vars

\* The annotation of the declaration.
Annotation ==
    IF nodes[1].kind = "InterfaceDeclaration" THEN nodes[1].members[1]
    ELSE IF nodes[1].params # <<>> THEN nodes[1].params[1]
    ELSE nodes[1].type

\* How often the annotation names a type: in a type reference, its generic
\* arguments, an array element type, a member of a union or intersection.
RECURSIVE Occurrences(_, _)
Occurrences(t, name) ==
    (IF t.kind = "TypeReference" /\ t.name = name THEN 1 ELSE 0)
    + (IF t.kind \in {"TypeReference", "ArrayType", "UnionType", "IntersectionType"}
       THEN (IF Len(t.sub) >= 1 THEN Occurrences(t.sub[1], name) ELSE 0)
            + (IF Len(t.sub) >= 2 THEN Occurrences(t.sub[2], name) ELSE 0)
       ELSE 0)

\* The usage records of a name that the declaration produced.
RecordsOf(name) ==
    {k \in 1..Len(RecordedUsages(name)) :
        /\ RecordedUsages(name)[k].typeName = name
        /\ RecordedUsages(name)[k].functionName = nodes[1].name
        /\ RecordedUsages(name)[k].usageContext =
              (IF nodes[1].kind = "InterfaceDeclaration" THEN "property"
               ELSE IF nodes[1].params # <<>> THEN "function-param"
               ELSE "function-return")}

\* C23: one parameter, return or property annotation yields one usage record
\* for every occurrence of a named type reachable through type references,
\* generic arguments, array element types and union or intersection members,
\* each attributed to the same function.
EveryReachableNameRecorded ==
    Done =>
        \A name \in {"A", "B", "Map"} :
            /\ Cardinality(RecordsOf(name)) = Occurrences(Annotation, name)
            /\ Len(RecordedUsages(name)) = Occurrences(Annotation, name)

\* Map<string, A | B> on a parameter.
EveryReachableNameRecordedWitness ==
    /\ Done
    /\ nodes[1].params =
          <<TypeNode("TypeReference", "Map",
                     <<StringKeyword, TypeNode("UnionType", Undefined, <<Ref("A"), Ref("B")>>)>>)>>
    /\ Cardinality(RecordsOf("A")) = 1
    /\ Cardinality(RecordsOf("B")) = 1

-----------------------------------------------------------------------------
(* Interfaces as users of types *)

InterfaceDeclarations ==
    {i \in 1..Len(nodes) : nodes[i].kind = "InterfaceDeclaration"}

\* The type names interface i names in its heritage clauses and in the type
\* annotations of its property signatures.
NamedByInterface(i) ==
    ({nodes[i].heritage[k] : k \in 1..Len(nodes[i].heritage)} \ {Undefined})
    \cup UNION {Members(ExtractAllTypeNames(nodes[i].members[k])) :
                    k \in 1..Len(nodes[i].members)}

-----------------------------------------------------------------------------
(* Usages are matched by bare name *)

\* C25: the usages of a definition are all the usages recorded under its name in
\* the whole run, whatever their file: a definition that no exemption covers is
\* reported exactly when those usages carry one function name, and two such
\* definitions of one name, in two files, are both reported or both not.
SameNameSameVerdict ==
    Done =>
        /\ \A d \in Recorded :
              NotExempt(d) =>
                  (ReportedDefinition(d) # {} <=> Cardinality(UsingFunctions(d.name)) = 1)
        /\ \A d1, d2 \in Recorded :
              (d1.name = d2.name /\ NotExempt(d1) /\ NotExempt(d2)) =>
                  (ReportedDefinition(d1) # {} <=> ReportedDefinition(d2) # {})

\* A is declared in both files and used by one function in one of them: both
\* declarations are reported.
SameNameSameVerdictWitness ==
    /\ Done
    /\ \E d1, d2 \in Recorded :
          /\ d1.name = d2.name
          /\ d1.filePath # d2.filePath
          /\ NotExempt(d1) /\ NotExempt(d2)
          /\ ReportedDefinition(d1) # {} /\ ReportedDefinition(d2) # {}
          /\ \A k \in 1..Len(RecordedUsages(d1.name)) :
                RecordedUsages(d1.name)[k].filePath = d1.filePath

-----------------------------------------------------------------------------
(* The definitions map *)

\* The number of top-level type declarations of the programs below.
MaxDeclarations == 3

\* Type declarations named A or B: interfaces, and aliases of an object literal,
\* of string, of Pick<B> and Record<string, A>, of the plain reference A, and of
\* an array of object literals.
DeclarationNodes ==
    {Node("InterfaceDeclaration", n, FALSE, <<>>, <<>>, NoType, <<>>) : n \in {"A", "B"}}
    \cup {Node("TypeAliasDeclaration", "A", FALSE, <<>>, <<>>, t, <<>>) :
             t \in {TypeLiteralNode, StringKeyword,
                    TypeNode("TypeReference", "Pick", <<Ref("B")>>),
                    TypeNode("ArrayType", Undefined, <<TypeLiteralNode>>)}}
    \cup {Node("TypeAliasDeclaration", "B", FALSE, <<>>, <<>>, t, <<>>) :
             t \in {Ref("A"), TypeNode("TypeReference", "Record", <<StringKeyword, Ref("A")>>)}}

\* The program is up to MaxDeclarations top-level declarations, one per line, in
\* the two files in order.
InitDeclared ==
    /\ pc = "parse"
    /\ \E n \in 1..MaxDeclarations :
          \E decls \in [1..n -> DeclarationNodes], files \in [1..n -> 1..Len(FileNames)] :
              /\ \A k \in 1..(n - 1) : files[k] <= files[k + 1]
              /\ nodes = [k \in 1..n |->
                            [kind |-> decls[k].kind, name |-> decls[k].name,
                             isExported |-> decls[k].isExported,
                             heritage |-> decls[k].heritage, params |-> decls[k].params,
                             type |-> decls[k].type, members |-> decls[k].members,
                             file |-> files[k], parent |-> 0,
                             start |-> [line |-> k - 1, character |-> 0]]]
    /\ fileIdx = 1
    /\ typeDefinitions = <<>>
    /\ typeUsages = <<>>
    /\ violations = <<>>

DeclaredInit == InitDeclared /\ InitInline /\ InitStore /\ InitCli /\ InitRerun

SpecDeclared == DeclaredInit /\ [][NextAnnotated]_vars

\* totalTypesAnalyzed: typeDefinitions.size
TotalTypesAnalyzed == Len(typeDefinitions)

\* The declarations the map is to hold: every interface, and the aliases of an
\* object literal or of a reference to one of the five utility types.
ObjectShaped ==
    {i \in 1..Len(nodes) :
        \/ nodes[i].kind = "InterfaceDeclaration"
        \/ /\ nodes[i].kind = "TypeAliasDeclaration"
           /\ \/ nodes[i].type.kind = "TypeLiteral"
              \/ /\ nodes[i].type.kind = "TypeReference"
                 /\ nodes[i].type.name \in {"Pick", "Omit", "Record", "Partial", "Required"}}

FileAndName(i) == <<FileNames[nodes[i].file], nodes[i].name>>

\* C26: after the run the definitions map has one entry for each (file path, name)
\* of an interface or object-shaped alias and no other entry, the entry of a pair
\* declared several times is that of the last declaration, and totalTypesAnalyzed
\* is the number of entries.
OneEntryPerFileAndName ==
    Done =>
        /\ \A j, k \in 1..Len(typeDefinitions) :
              (/\ typeDefinitions[j].value.filePath = typeDefinitions[k].value.filePath
               /\ typeDefinitions[j].value.name = typeDefinitions[k].value.name) => j = k
        /\ \A i \in ObjectShaped :
              \E d \in Recorded :
                  /\ <<d.filePath, d.name>> = FileAndName(i)
                  /\ d.line >= nodes[i].start.line + 1
        /\ \A d \in Recorded :
              \E i \in ObjectShaped :
                  /\ <<d.filePath, d.name>> = FileAndName(i)
                  /\ d.line = nodes[i].start.line + 1
                  /\ d.kind = (IF nodes[i].kind = "InterfaceDeclaration"
                               THEN "interface" ELSE "type")
        /\ TotalTypesAnalyzed = Cardinality({FileAndName(i) : i \in ObjectShaped})

\* A name declared twice in one file, the second time as an alias of Pick, next
\* to an alias that is not object-shaped: one entry, of the second declaration.
OneEntryPerFileAndNameWitness ==
    /\ Done
    /\ Len(nodes) = 3
    /\ \E i, j \in ObjectShaped :
          /\ i < j
          /\ FileAndName(i) = FileAndName(j)
          /\ nodes[j].type.kind = "TypeReference"
          /\ \E d \in Recorded : d.line = nodes[j].start.line + 1
    /\ Cardinality(ObjectShaped) = 2
    /\ TotalTypesAnalyzed = 1

-----------------------------------------------------------------------------
(* Classification is one step after the collection *)

UsageFile(u) == CHOOSE f \in 1..Len(FileNames) : FileNames[f] = u.filePath

\* The definitions of file f that no exemption covers and that have usages by
\* function names of which one is recorded in a later file only.
UsedAlsoInLaterFile ==
    {d \in Recorded :
        /\ NotExempt(d)
        /\ \E k, j \in 1..Len(RecordedUsages(d.name)) :
              LET u == RecordedUsages(d.name)[k]
                  v == RecordedUsages(d.name)[j]
              IN  /\ u.functionName # Undefined /\ v.functionName # Undefined
                  /\ u.functionName # v.functionName
                  /\ u.filePath = d.filePath
                  /\ FileNames[UsageFile(v)] # d.filePath
                  /\ \A w \in 1..UsageFile(v) : FileNames[w] = d.filePath => w < UsageFile(v)}

\* C27: the list of violations is empty while files are being collected and is
\* written in one step, taken when the definitions and usages of every file have
\* been collected; a type defined in an early file and used by a second function
\* in a later file is not reported.
ClassificationAfterCollection ==
    /\ [](~Done => violations = <<>>)
    /\ [][violations' # violations =>
              (pc = "collect" /\ fileIdx > Len(FileNames) /\ pc' = "done")]_vars
    /\ [](Done => \A d \in UsedAlsoInLaterFile : ReportedDefinition(d) = {})

\* A type of the first file is used by one function there and by another function
\* in the second file, and is not reported.
ClassificationAfterCollectionWitness ==
    /\ Done
    /\ \E d \in UsedAlsoInLaterFile :
          /\ d.filePath = FileNames[1]
          /\ ReportedDefinition(d) = {}
          /\ LET here == SelectSeq(RecordedUsages(d.name),
                                   LAMBDA u : u.filePath = d.filePath)
             IN  IsSingleUseType(d, here)

-----------------------------------------------------------------------------
(* The order in which the files are walked *)

\* analyzeCodebase on the same files, program.getSourceFiles() listing them in
\* the opposite order: the maps are new, the last file is first.
AnalyzeCodebaseReordered ==
    /\ pc = "done"
    /\ ~previousRun.ran
    /\ previousRun' = [previousRun EXCEPT !.ran = TRUE, !.violations = violations]
    /\ pc' = "collectReordered"
    /\ fileIdx' = Len(FileNames)
    /\ typeDefinitions' = <<>>
    /\ typeUsages' = <<>>
    /\ violations' = <<>>
    /\ UNCHANGED nodes
    /\ UNCHANGED <<inlineVars, storeVars, cliVars>>

\* The loop body of analyzeSourceFiles in that order; after the first file of the
\* program the loop is over.
AnalyzeSourceFileReordered ==
    /\ pc = "collectReordered"
    /\ typeDefinitions' = CollectTypeDefinitions(nodes, fileIdx, typeDefinitions)
    /\ typeUsages' = CollectTypeUsages(nodes, fileIdx, typeUsages)
    /\ IF fileIdx > 1
       THEN fileIdx' = fileIdx - 1 /\ pc' = pc
       ELSE fileIdx' = Len(FileNames) + 1 /\ pc' = "collect"
    /\ UNCHANGED <<nodes, violations>>
    /\ UNCHANGED <<inlineVars, storeVars, cliVars, previousRun>>

NextReordered ==
    \/ (Next /\ Len(nodes') <= MaxRerunNodes)
    \/ AnalyzeCodebaseReordered
    \/ AnalyzeSourceFileReordered

SpecReordered == Init /\ [][NextReordered]_vars

\* C28: the files walked in the opposite order give the same set of
\* single-use-named violations: type names, places and usedByFunction.
WalkOrderIrrelevant ==
    (previousRun.ran /\ Done) =>
        /\ Members(violations) = Members(previousRun.violations)
        /\ Len(violations) = Len(previousRun.violations)

\* A type defined in one file and used by one function in the other is reported
\* in both orders.
WalkOrderIrrelevantWitness ==
    /\ previousRun.ran
    /\ Done
    /\ \E k \in 1..Len(violations) :
          \E u \in AllUsages :
              /\ u.typeName = violations[k].typeName
              /\ u.filePath # violations[k].filePath

-----------------------------------------------------------------------------
(* The arguments of mergeSuppressions after the call *)

\* C29: after mergeSuppressions both arguments are what they were at the call,
\* their per-file maps included, also when both have entries for one file.
MergeLeavesArgumentsUnchanged ==
    storePc = "mergeSuppressions" =>
        /\ existingArg = returned.existing
        /\ \A filePath \in DOMAIN returned.existing :
              /\ filePath \in DOMAIN existingArg
              /\ existingArg[filePath] = returned.existing[filePath]

\* The same statement for calls whose arguments have no file in common.
MergeLeavesDisjointArgumentsUnchanged ==
    (storePc = "mergeSuppressions" /\ DOMAIN returned.existing \cap DOMAIN newArg = {}) =>
        existingArg = returned.existing

-----------------------------------------------------------------------------
(* The suppression file across runs *)

\* The map a suppression file holds: empty when there is no file.
Stored(file) ==
    LET value == LoadSuppressions(file, SuppressionPath) IN
    IF file.kind = "file" /\ ~value.threw THEN value.value ELSE EmptyObject

\* The (file, key) pairs this run's unsuppressed violations are written under.
UnsuppressedPairs ==
    {<<PathRelative(TargetDir, filtered.unsuppressedViolations[k].filePath),
       PropertyKey(filtered.unsuppressedViolations[k], "typeName")>> :
        k \in 1..Len(filtered.unsuppressedViolations)}
    \cup {<<PathRelative(TargetDir, filtered.unsuppressedInlineViolations[k].filePath),
            InlineKey(filtered.unsuppressedInlineViolations[k])>> :
             k \in 1..Len(filtered.unsuppressedInlineViolations)}

\* C30: the suppression file is written only by a --suppress-all run, and what
\* such a run writes holds every entry the file held, with its reason, and beyond
\* those only entries of violations the run found unsuppressed.
SuppressionFileOnlyGrows ==
    [][disk' # disk =>
          /\ args.suppressAll
          /\ cliPc = "filtered"
          /\ disk'.kind = "file"
          /\ \A written \in {LoadSuppressions(disk', SuppressionPath)}, before \in {Stored(disk)} :
                 /\ ~written.threw
                 /\ \A pair \in Pairs(before) :
                       /\ pair \in Pairs(written.value)
                       /\ written.value[pair[1]][pair[2]] = before[pair[1]][pair[2]]
                 /\ Pairs(written.value) \ Pairs(before) \subseteq UnsuppressedPairs]_vars

\* A --suppress-all run has written a file that held an entry before and holds a
\* new one now.
SuppressionFileOnlyGrowsWitness ==
    /\ cliPc = "exited"
    /\ args.suppressAll
    /\ Pairs(suppressAllRun.existing) # {}
    /\ Pairs(Stored(disk)) \ Pairs(suppressAllRun.existing) # {}
    /\ \A pair \in Pairs(suppressAllRun.existing) : pair \in Pairs(Stored(disk))

====
